---------------------------- MODULE Spec2Model ----------------------------
(***************************************************************************)
(* Model of the classification and scoring engine of the privacy audit     *)
(* (src/CookieAudit.py, src/app.py).                                       *)
(*                                                                         *)
(* Python strings are modelled as sequences of one-character strings, so   *)
(* that splitting, stripping, lower-casing, searching and escaping are     *)
(* computed character by character as the code computes them.              *)
(*                                                                         *)
(* Every function of the engine is pure.  Each specification below draws   *)
(* the arguments of one function in Init and applies the function in one   *)
(* action; pc is "ready" before the call and "returned" (or "raised")      *)
(* after it.                                                               *)
(***************************************************************************)
EXTENDS Integers, Sequences, FiniteSets, TLC

VARIABLES
    pc,                    \* "ready" | "returned" | "raised"
    raw_text,              \* parse_observed_cookies: argument
    cookie_names,          \* parse_observed_cookies: returned list
    cookie_name,           \* classify_cookie: argument
    category,              \* classify_cookie: returned category
    policy_text,           \* grade_cookie_truthfulness: argument
    observed_cookie_text,  \* grade_cookie_truthfulness: argument
    consent_state,         \* grade_cookie_truthfulness: argument
    cookie_result,         \* grade_cookie_truthfulness: returned dict
    report,                \* _extract_flaws: argument
    flaws,                 \* _extract_flaws: returned list; _highlight_dangers: argument
    text,                  \* _highlight_dangers: argument
    spans,                 \* _highlight_dangers: the spans of combined_pattern.finditer(text)
    highlighted,           \* _highlight_dangers: returned markup
    snapshot_text,         \* _parse_breach_snapshot: argument
    breach_result,         \* _parse_breach_snapshot: returned tuple
    grade,                 \* compare_cookie_audit: the policy grade, "" for None
    cookie_grade,          \* compare_cookie_audit: cookie_result.get("grade"), "" without a cookie_result
    include_breach_lookup, \* compare_cookie_audit: whether the breach lookup was asked for
    generated_snapshot,    \* compare_cookie_audit: what _generate_breach_snapshot returns
    generated_legacy,      \* compare_cookie_audit: what _generate_breach_snapshot_legacy returns
    breach_snapshot,       \* compare_cookie_audit: the snapshot that was parsed last
    breach_items,          \* compare_cookie_audit: the incidents of the snapshot
    breach_synopsis,       \* compare_cookie_audit: the synopsis of the snapshot
    breach_grade,          \* compare_cookie_audit: the grade of the breach snapshot, "" without one
    final_grade_components,\* compare_cookie_audit: the components of the consensus
    final_grade,           \* compare_cookie_audit: the consensus grade
    final_grade_risk       \* compare_cookie_audit: the consensus risk level

parseVars == <<raw_text, cookie_names>>
classifyVars == <<cookie_name, category>>
gradeVars == <<policy_text, observed_cookie_text, consent_state, cookie_result>>
flawVars == <<report, flaws>>
highlightVars == <<text, spans, highlighted>>
breachVars == <<snapshot_text, breach_result>>
consensusVars == <<grade, cookie_grade, include_breach_lookup, generated_snapshot,
                   generated_legacy, breach_snapshot, breach_items, breach_synopsis,
                   breach_grade, final_grade_components, final_grade, final_grade_risk>>

vars == <<pc, parseVars, classifyVars, gradeVars, flawVars, highlightVars,
          breachVars, consensusVars>>

\* The values of the variables of a function that is not called.
IdleParse == raw_text = <<>> /\ cookie_names = <<>>
IdleClassify == cookie_name = <<>> /\ category = ""
IdleGrade ==
    /\ policy_text = <<>>
    /\ observed_cookie_text = <<>>
    /\ consent_state = ""
    /\ cookie_result = <<>>
IdleFlaws == report = <<>> /\ flaws = <<>>
IdleHighlight == text = <<>> /\ spans = <<>> /\ highlighted = <<>>
IdleBreach == snapshot_text = <<>> /\ breach_result = <<>>
IdleConsensus ==
    /\ grade = ""
    /\ cookie_grade = ""
    /\ include_breach_lookup = FALSE
    /\ generated_snapshot = [some |-> FALSE, text |-> <<>>]
    /\ generated_legacy = [some |-> FALSE, text |-> <<>>]
    /\ breach_snapshot = [some |-> FALSE, text |-> <<>>]
    /\ breach_items = <<>>
    /\ breach_synopsis = <<>>
    /\ breach_grade = ""
    /\ final_grade_components = <<>>
    /\ final_grade = ""
    /\ final_grade_risk = ""

---------------------------------------------------------------------------
(* Characters and strings                                                  *)

\* The printable ASCII characters in code point order, 32 .. 126.  The grave
\* accent (code point 96) is written "GRAVE"; the bullet U+2022, the one
\* character outside ASCII that the code names, is written "BULLET".
Printable ==
    <<" ","!","\"","#","$","%","&","'","(",")","*","+",",","-",".","/",
      "0","1","2","3","4","5","6","7","8","9",":",";","<","=",">","?",
      "@","A","B","C","D","E","F","G","H","I","J","K","L","M","N","O",
      "P","Q","R","S","T","U","V","W","X","Y","Z","[","\\","]","^","_",
      "GRAVE","a","b","c","d","e","f","g","h","i","j","k","l","m","n","o",
      "p","q","r","s","t","u","v","w","x","y","z","{","|","}","~">>

Chars == {Printable[i] : i \in 1..Len(Printable)} \cup {"\n", "\t", "BULLET"}

\* ord(c)
Ord ==
    [c \in Chars |->
        IF c = "\n" THEN 10
        ELSE IF c = "\t" THEN 9
        ELSE IF c = "BULLET" THEN 8226
        ELSE 31 + (CHOOSE i \in 1..Len(Printable) : Printable[i] = c)]

\* str.lower() on one character
LowerChar ==
    [c \in Chars |->
        IF Ord[c] >= 65 /\ Ord[c] <= 90 THEN Printable[Ord[c] + 32 - 31] ELSE c]

\* str.lower()
Lower(s) == [i \in 1..Len(s) |-> LowerChar[s[i]]]

\* str.isspace() on one character (the whitespace str.strip() removes and \s matches)
IsSpace(c) == c \in {" ", "\t", "\n"}

\* s[i:j] with 1-based inclusive bounds; empty when j < i
Slice(s, i, j) == IF j < i THEN <<>> ELSE SubSeq(s, i, j)

\* str.strip()
Strip(s) ==
    LET keep == {i \in 1..Len(s) : ~IsSpace(s[i])}
    IN  IF keep = {} THEN <<>>
        ELSE Slice(s, CHOOSE i \in keep : \A j \in keep : i <= j,
                      CHOOSE i \in keep : \A j \in keep : i >= j)

\* s.startswith(p)
StartsWith(s, p) == Len(p) <= Len(s) /\ SubSeq(s, 1, Len(p)) = p

\* s.startswith(p, i - 1): p stands at position i of s
PrefixAt(s, i, p) == i + Len(p) - 1 <= Len(s) /\ SubSeq(s, i, i + Len(p) - 1) = p

\* the positions at which p occurs in s
Occurrences(s, p) ==
    {i \in 1..(Len(s) - Len(p) + 1) : SubSeq(s, i, i + Len(p) - 1) = p}

\* p in s
Contains(s, p) == Len(p) = 0 \/ Occurrences(s, p) # {}

\* a < b for strings (lexicographic by code point)
StrLess(a, b) ==
    \E k \in 0..Len(a) :
        /\ k <= Len(b)
        /\ \A i \in 1..k : a[i] = b[i]
        /\ \/ k = Len(a) /\ k < Len(b)
           \/ k < Len(a) /\ k < Len(b) /\ Ord[a[k + 1]] < Ord[b[k + 1]]

\* the sum of f over 1..n
RECURSIVE SumTo(_, _)
SumTo(f, n) == IF n = 0 THEN 0 ELSE f[n] + SumTo(f, n - 1)

\* "".join of a list of strings with a separator
RECURSIVE Join(_, _)
Join(parts, sep) ==
    IF Len(parts) = 0 THEN <<>>
    ELSE IF Len(parts) = 1 THEN parts[1]
    ELSE parts[1] \o sep \o Join(Tail(parts), sep)

---------------------------------------------------------------------------
(* Cookie Classifier: src/CookieAudit.py                                   *)

\* A regular expression of TRACKER_PATTERNS: a sequence of elements, each a
\* character class, optional ("?") or not.
Lit(s) == [i \in 1..Len(s) |-> [cs |-> {s[i]}, opt |-> FALSE]]

TRACKER_PATTERNS ==
    << [category |-> "analytics", patterns |-> <<
          Lit(<<"_","g","a">>),
          Lit(<<"_","g","i","d">>),
          Lit(<<"_","g","a","t">>),
          Lit(<<"a","n","a","l","y","t","i","c","s">>),
          Lit(<<"m","i","x","p","a","n","e","l">>),
          Lit(<<"a","m","p","l","i","t","u","d","e">>),
          Lit(<<"s","e","g","m","e","n","t">>) >>],
       [category |-> "advertising", patterns |-> <<
          Lit(<<"_","f","b","p">>),
          Lit(<<"d","o","u","b","l","e","c","l","i","c","k">>),
          Lit(<<"a","d">>) \o <<[cs |-> {"s","x"}, opt |-> TRUE]>>,
          Lit(<<"t","t","c","l","i","d">>),
          Lit(<<"g","c","l","_","a","u">>),
          Lit(<<"c","r","i","t","e","o">>) >>],
       [category |-> "session", patterns |-> <<
          Lit(<<"s","e","s","s","i","o","n">>),
          Lit(<<"s","e","s","s">>),
          Lit(<<"c","s","r","f">>),
          Lit(<<"a","u","t","h">>),
          Lit(<<"t","o","k","e","n">>) >>],
       [category |-> "functional", patterns |-> <<
          Lit(<<"p","r","e","f">>),
          Lit(<<"l","a","n","g">>),
          Lit(<<"t","h","e","m","e">>),
          Lit(<<"r","e","m","e","m","b","e","r">>) >>] >>

DISCLOSURE_TERMS ==
    << [category |-> "analytics", terms |-> <<
          <<"a","n","a","l","y","t","i","c","s">>,
          <<"m","e","a","s","u","r","e","m","e","n","t">>,
          <<"g","o","o","g","l","e"," ","a","n","a","l","y","t","i","c","s">>,
          <<"m","i","x","p","a","n","e","l">>,
          <<"a","m","p","l","i","t","u","d","e">>,
          <<"s","e","g","m","e","n","t">> >>],
       [category |-> "advertising", terms |-> <<
          <<"a","d","v","e","r","t","i","s","i","n","g">>,
          <<"a","d"," ","n","e","t","w","o","r","k">>,
          <<"t","a","r","g","e","t","e","d"," ","a","d","s">>,
          <<"r","e","m","a","r","k","e","t","i","n","g">>,
          <<"d","o","u","b","l","e","c","l","i","c","k">>,
          <<"f","a","c","e","b","o","o","k"," ","p","i","x","e","l">> >>],
       [category |-> "session", terms |-> <<
          <<"s","t","r","i","c","t","l","y"," ","n","e","c","e","s","s","a","r","y">>,
          <<"e","s","s","e","n","t","i","a","l"," ","c","o","o","k","i","e","s">>,
          <<"a","u","t","h","e","n","t","i","c","a","t","i","o","n">>,
          <<"s","e","s","s","i","o","n"," ","c","o","o","k","i","e","s">> >>],
       [category |-> "functional", terms |-> <<
          <<"p","r","e","f","e","r","e","n","c","e","s">>,
          <<"f","u","n","c","t","i","o","n","a","l"," ","c","o","o","k","i","e","s">>,
          <<"s","i","t","e"," ","s","e","t","t","i","n","g","s">>,
          <<"l","a","n","g","u","a","g","e"," ","s","e","t","t","i","n","g","s">> >>] >>

\* re.split(r"[\n,;]+", s): the pieces between maximal runs of separators
\* (a run at either end leaves an empty piece there).
RECURSIVE SplitRuns(_, _, _, _, _)
SplitRuns(s, seps, i, cur, inRun) ==
    IF i > Len(s) THEN <<cur>>
    ELSE IF s[i] \in seps
         THEN IF inRun THEN SplitRuns(s, seps, i + 1, <<>>, TRUE)
              ELSE <<cur>> \o SplitRuns(s, seps, i + 1, <<>>, TRUE)
         ELSE SplitRuns(s, seps, i + 1, Append(cur, s[i]), FALSE)

\* [part.strip() for part in re.split(...) if part.strip()]
CookieTokens(raw) ==
    LET parts == SplitRuns(raw, {"\n", ",", ";"}, 1, <<>>, FALSE)
        stripped == [i \in 1..Len(parts) |-> Strip(parts[i])]
    IN  SelectSeq(stripped, LAMBDA t : t # <<>>)

\* token.split("=", 1)[0].strip() when "=" is in the token, else the token
TokenName(token) ==
    LET eqs == {i \in 1..Len(token) : token[i] = "="}
    IN  IF eqs = {} THEN token
        ELSE Strip(Slice(token, 1, (CHOOSE i \in eqs : \A j \in eqs : i <= j) - 1))

\* the list `names` built by the loop over the tokens
CookieNameList(raw) ==
    LET tokens == CookieTokens(raw)
        named == [i \in 1..Len(tokens) |-> TokenName(tokens[i])]
    IN  SelectSeq(named, LAMBDA n : n # <<>>)

\* sorted(S, key=str.lower) for a set S: sorted() is stable and the iteration
\* order of a set of strings is arbitrary (string hashing is randomized per
\* process), so names with equal keys may come out in either order.  The set of
\* all lists the call can return.
RECURSIVE SortedByLower(_)
SortedByLower(S) ==
    IF S = {} THEN {<<>>}
    ELSE LET least == {x \in S : \A y \in S : ~StrLess(Lower(y), Lower(x))}
         IN  UNION {{<<x>> \o r : r \in SortedByLower(S \ {x})} : x \in least}

\* parse_observed_cookies(raw_text): the set of lists it can return
parse_observed_cookies(raw) ==
    IF raw = <<>> THEN {<<>>}
    ELSE LET names == CookieNameList(raw)
         IN  SortedByLower({names[i] : i \in 1..Len(names)})

\* re.match of elements k.. of pattern p at position i of s (greedy, backtracking)
RECURSIVE ReMatchAt(_, _, _, _)
ReMatchAt(p, k, s, i) ==
    IF k > Len(p) THEN TRUE
    ELSE \/ i <= Len(s) /\ s[i] \in p[k].cs /\ ReMatchAt(p, k + 1, s, i + 1)
         \/ p[k].opt /\ ReMatchAt(p, k + 1, s, i)

\* re.search(pattern, s) is not None
ReSearch(p, s) == \E i \in 1..(Len(s) + 1) : ReMatchAt(p, 1, s, i)

\* whether any pattern of the k-th category of TRACKER_PATTERNS is found in s
CategoryMatches(k, s) ==
    \E j \in 1..Len(TRACKER_PATTERNS[k].patterns) :
        ReSearch(TRACKER_PATTERNS[k].patterns[j], s)

\* the mutant of classify_cookie: the loop does not return at the first match,
\* so the last matching category wins
classify_cookie_last(name) ==
    LET lower == Lower(name)
        hits == {k \in 1..Len(TRACKER_PATTERNS) : CategoryMatches(k, lower)}
    IN  IF hits = {} THEN "unknown"
        ELSE TRACKER_PATTERNS[CHOOSE k \in hits : \A h \in hits : k >= h].category

\* classify_cookie(cookie_name): the first category, in the order of the
\* table, one of whose patterns is found in the lower-cased name
classify_cookie(name) ==
    LET lower == Lower(name)
        hits == {k \in 1..Len(TRACKER_PATTERNS) : CategoryMatches(k, lower)}
    IN  IF hits = {} THEN "unknown"
        ELSE TRACKER_PATTERNS[CHOOSE k \in hits : \A h \in hits : k <= h].category

\* _policy_disclosures(policy_text)[category]
_policy_disclosures(policy, cat) ==
    LET lowered == Lower(policy)
    IN  \E k \in 1..Len(DISCLOSURE_TERMS) :
            /\ DISCLOSURE_TERMS[k].category = cat
            /\ \E j \in 1..Len(DISCLOSURE_TERMS[k].terms) :
                   Contains(lowered, DISCLOSURE_TERMS[k].terms[j])

---------------------------------------------------------------------------
(* Truthfulness Grader: src/CookieAudit.py                                 *)

Categories == {"analytics", "advertising", "session", "functional", "unknown"}

Min(a, b) == IF a <= b THEN a ELSE b
Max(a, b) == IF a >= b THEN a ELSE b

\* {"high": 0, "medium": 1, "low": 2}.get(severity, 3)
IssueRank(severity) ==
    CASE severity = "high" -> 0
      [] severity = "medium" -> 1
      [] severity = "low" -> 2
      [] OTHER -> 3

\* issues.sort(key=rank): list.sort is stable
RECURSIVE SortIssues(_)
SortIssues(issues) ==
    IF issues = <<>> THEN <<>>
    ELSE LET n == Len(issues)
             rest == SortIssues(SubSeq(issues, 1, n - 1))
             x == issues[n]
             pos == Cardinality({i \in 1..Len(rest) :
                        IssueRank(rest[i].severity) <= IssueRank(x.severity)})
         IN  SubSeq(rest, 1, pos) \o <<x>> \o SubSeq(rest, pos + 1, Len(rest))

\* a variant of the consent deduction with a plausible defect: the cap of 45
\* is forgotten
NonEssentialDeductionUncapped(count) == count * 12

\* min(45, non_essential_count * 12)
NonEssentialDeduction(count) == Min(45, count * 12)

\* the grade and risk level of a score (the if/elif chain)
ScoreGrade(score) ==
    IF score >= 85 THEN [grade |-> "A", risk_level |-> "Low"]
    ELSE IF score >= 70 THEN [grade |-> "B", risk_level |-> "Low"]
    ELSE IF score >= 55 THEN [grade |-> "C", risk_level |-> "Medium"]
    ELSE IF score >= 40 THEN [grade |-> "D", risk_level |-> "High"]
    ELSE [grade |-> "F", risk_level |-> "High"]

\* a variant of the count with a plausible defect: the cookies that match no
\* tracker pattern are not counted
CategoryCountNoUnknown(classifications, c) ==
    IF c = "unknown" THEN 0
    ELSE Cardinality({i \in 1..Len(classifications) : classifications[i].category = c})

\* category_counts[c] after the loop over the classifications
CategoryCount(classifications, c) ==
    Cardinality({i \in 1..Len(classifications) : classifications[i].category = c})

\* grade_cookie_truthfulness(policy_text, observed_cookie_text, consent_state),
\* given the list `names` that parse_observed_cookies returned
grade_cookie_truthfulness(policy, names, consent) ==
    LET classifications ==
            [i \in 1..Len(names) |->
                [name |-> names[i], category |-> classify_cookie(names[i])]]
        category_counts == [c \in Categories |-> CategoryCount(classifications, c)]
        non_essential_count ==
            category_counts["analytics"] + category_counts["advertising"]
        rule1 == consent \in {"before_consent", "after_reject"} /\ non_essential_count > 0
        rule2 == category_counts["analytics"] > 0 /\ ~_policy_disclosures(policy, "analytics")
        rule3 == category_counts["advertising"] > 0 /\ ~_policy_disclosures(policy, "advertising")
        rule4 == category_counts["unknown"] > 3
        rule5 == /\ ~Contains(Lower(policy), <<"o","p","t","-","o","u","t">>)
                 /\ ~Contains(Lower(policy), <<"d","o"," ","n","o","t"," ","s","e","l","l">>)
        score1 == 100 - (IF rule1 THEN NonEssentialDeduction(non_essential_count) ELSE 0)
        score2 == score1 - (IF rule2 THEN 20 ELSE 0)
        score3 == score2 - (IF rule3 THEN 25 ELSE 0)
        score4 == score3 - (IF rule4 THEN 10 ELSE 0)
        score5 == score4 - (IF rule5 THEN 8 ELSE 0)
        issues ==
            (IF rule1 THEN <<[severity |-> "high",
                              title |-> "Non-essential cookies loaded before consent"]>>
             ELSE <<>>)
            \o (IF rule2 THEN <<[severity |-> "high",
                                 title |-> "Undisclosed analytics tracking"]>>
                ELSE <<>>)
            \o (IF rule3 THEN <<[severity |-> "high",
                                 title |-> "Undisclosed advertising tracking"]>>
                ELSE <<>>)
            \o (IF rule4 THEN <<[severity |-> "medium",
                                 title |-> "Many unknown cookies"]>>
                ELSE <<>>)
            \o (IF rule5 THEN <<[severity |-> "medium",
                                 title |-> "Weak opt-out language"]>>
                ELSE <<>>)
        score == Max(0, Min(100, score5))
    IN  [score |-> score,
         grade |-> ScoreGrade(score).grade,
         risk_level |-> ScoreGrade(score).risk_level,
         issues |-> SortIssues(issues),
         cookies |-> classifications,
         category_counts |-> category_counts,
         consent_state |-> consent]

---------------------------------------------------------------------------
(* Inputs of the cookie functions                                          *)

\* the longest list of tokens in a raw cookie text
MaxTokens == 3
\* the number of name fragments in a cookie name
MaxFragments == 2
\* the number of observed cookies of each kind (analytics, advertising, other)
MaxPerKind == 4

\* all lists of at most n indices into a list of length m
IndexLists(n, m) == UNION {[1..k -> 1..m] : k \in 0..n}

RawTokens ==
    << <<"_","g","a">>,
       <<"_","G","A">>,
       <<" ","s","e","s","s","=","1"," ">>,
       <<"=","v">>,
       <<"P","r","e","f">>,
       <<"b",";","a">>,
       <<"x","\n","\n","_","g","i","d","=","2",";">>,
       <<"a"," ","="," ","b"," ","="," ","c">> >>

RawTexts ==
    {Join([i \in 1..Len(ix) |-> RawTokens[ix[i]]], <<",">>) :
        ix \in IndexLists(MaxTokens, Len(RawTokens))}

NameFragments ==
    << <<"_","g","a">>,
       <<"a","d">>,
       <<"s","e","s","s">>,
       <<"p","r","e","f">>,
       <<"x","y","z">>,
       <<"A","D">>,
       <<"t","o","k","e","n">>,
       <<"s">>,
       <<"_","G","I","D">>,
       <<"l","a","n","g">> >>

CookieNames ==
    {Join([i \in 1..Len(ix) |-> NameFragments[ix[i]]], <<>>) :
        ix \in IndexLists(MaxFragments, Len(NameFragments))}

AnalyticsNames ==
    << <<"_","g","a">>, <<"_","g","i","d">>, <<"_","g","a","t">>,
       <<"m","i","x","p","a","n","e","l">>, <<"s","e","g","m","e","n","t">>,
       <<"a","m","p","l","i","t","u","d","e">> >>

AdvertisingNames ==
    << <<"_","f","b","p">>, <<"a","d","s">>, <<"a","d","x">>,
       <<"c","r","i","t","e","o">>, <<"t","t","c","l","i","d">>,
       <<"g","c","l","_","a","u">> >>

OtherNames ==
    << <<"x","y","z">>, <<"f","o","o">>, <<"s","e","s","s","i","o","n","_","i","d">>,
       <<"b","a","r">>, <<"b","a","z">>, <<"l","a","n","g">>, <<"q","u","x">>,
       <<"z","i","p">> >>

\* the first n names of a list
FirstNames(names, n) == SubSeq(names, 1, Min(n, Len(names)))

\* "\n".join(cookie_names), as the audit request builds the observed text
ObservedTexts ==
    {Join(FirstNames(AnalyticsNames, na) \o FirstNames(AdvertisingNames, nd)
              \o FirstNames(OtherNames, no), <<"\n">>) :
        na \in 0..MaxPerKind, nd \in 0..MaxPerKind, no \in 0..(MaxPerKind + 2)}

PolicyTexts ==
    { <<>>,
      <<"G","o","o","g","l","e"," ","A","n","a","l","y","t","i","c","s",","," ","t","a","r","g","e","t","e","d"," ","a","d","s">>,
      <<"m","e","a","s","u","r","e","m","e","n","t",";"," ","O","p","t","-","O","u","t">>,
      <<"A","d"," ","n","e","t","w","o","r","k","."," ","D","O"," ","N","O","T"," ","S","E","L","L">>,
      <<"Y","o","u"," ","m","a","y"," ","o","p","t","-","o","u","t">> }

ConsentStates == {"before_consent", "after_accept", "after_reject", "unspecified"}

---------------------------------------------------------------------------
(* The calls                                                               *)

\* a call of parse_observed_cookies(raw_text)
ParseObservedCookies ==
    /\ pc = "ready"
    /\ \E names \in parse_observed_cookies(raw_text) : cookie_names' = names
    /\ pc' = "returned"
    /\ UNCHANGED <<raw_text, classifyVars, gradeVars, flawVars, highlightVars,
                   breachVars, consensusVars>>

InitParse ==
    /\ pc = "ready"
    /\ raw_text \in RawTexts
    /\ cookie_names = <<>>
    /\ IdleClassify /\ IdleGrade /\ IdleFlaws /\ IdleHighlight
    /\ IdleBreach /\ IdleConsensus

NextParse == ParseObservedCookies

SpecParse == InitParse /\ [][NextParse]_vars

\* a call of classify_cookie(cookie_name)
ClassifyCookie ==
    /\ pc = "ready"
    /\ category' = classify_cookie(cookie_name)
    /\ pc' = "returned"
    /\ UNCHANGED <<cookie_name, parseVars, gradeVars, flawVars, highlightVars,
                   breachVars, consensusVars>>

InitClassify ==
    /\ pc = "ready"
    /\ cookie_name \in CookieNames
    /\ category = ""
    /\ IdleParse /\ IdleGrade /\ IdleFlaws /\ IdleHighlight
    /\ IdleBreach /\ IdleConsensus

NextClassify == ClassifyCookie

SpecClassify == InitClassify /\ [][NextClassify]_vars

\* a call of grade_cookie_truthfulness(policy_text, observed_cookie_text, consent_state)
GradeCookieTruthfulness ==
    /\ pc = "ready"
    /\ \E names \in parse_observed_cookies(observed_cookie_text) :
           cookie_result' = grade_cookie_truthfulness(policy_text, names, consent_state)
    /\ pc' = "returned"
    /\ UNCHANGED <<policy_text, observed_cookie_text, consent_state, parseVars,
                   classifyVars, flawVars, highlightVars, breachVars, consensusVars>>

InitGrade ==
    /\ pc = "ready"
    /\ policy_text \in PolicyTexts
    /\ observed_cookie_text \in ObservedTexts
    /\ consent_state \in ConsentStates
    /\ cookie_result = <<>>
    /\ IdleParse /\ IdleClassify /\ IdleFlaws /\ IdleHighlight
    /\ IdleBreach /\ IdleConsensus

NextGrade == GradeCookieTruthfulness

SpecGrade == InitGrade /\ [][NextGrade]_vars

---------------------------------------------------------------------------
(* Properties of the cookie functions                                      *)

\* no two names of the list are equal when compared case-insensitively
NoDuplicatesIgnoringCase(names) ==
    \A i, j \in 1..Len(names) : i # j => Lower(names[i]) # Lower(names[j])

\* the list is in case-insensitive order
SortedIgnoringCase(names) ==
    \A i, j \in 1..Len(names) : i < j => ~StrLess(Lower(names[j]), Lower(names[i]))

\* C1: for every raw observed-cookie text, the list parse_observed_cookies
\* returns holds no two names that are equal when compared case-insensitively,
\* and is sorted in case-insensitive order.
C1_ParseDedupSortedIgnoringCase ==
    pc = "returned" =>
        NoDuplicatesIgnoringCase(cookie_names) /\ SortedIgnoringCase(cookie_names)

\* the disclosure the policy text makes for a category: some disclosure phrase
\* of the category occurs in the lower-cased text
Disclosed(cat) == _policy_disclosures(policy_text, cat)

\* the score the deduction rules give to the category counts of the result
C3_ExpectedScore ==
    LET counts == cookie_result.category_counts
        tracking == counts["analytics"] + counts["advertising"]
        d1 == IF consent_state \in {"before_consent", "after_reject"} /\ tracking > 0
              THEN (IF 12 * tracking < 45 THEN 12 * tracking ELSE 45) ELSE 0
        d2 == IF counts["analytics"] > 0 /\ ~Disclosed("analytics") THEN 20 ELSE 0
        d3 == IF counts["advertising"] > 0 /\ ~Disclosed("advertising") THEN 25 ELSE 0
        d4 == IF counts["unknown"] > 3 THEN 10 ELSE 0
        d5 == IF \/ Contains(Lower(policy_text), <<"o","p","t","-","o","u","t">>)
                 \/ Contains(Lower(policy_text), <<"d","o"," ","n","o","t"," ","s","e","l","l">>)
              THEN 0 ELSE 8
        total == 100 - (d1 + d2 + d3 + d4 + d5)
    IN  IF total < 0 THEN 0 ELSE IF total > 100 THEN 100 ELSE total

\* C3: the score of grade_cookie_truthfulness is 100 minus the applicable
\* deductions (rule 1 only for before_consent and after_reject), clamped to
\* 0..100, and the grade and risk level are the threshold mapping of the score.
C3_ScoreGradeRisk ==
    pc = "returned" =>
        LET r == cookie_result
        IN  /\ r.score = C3_ExpectedScore
            /\ r.score \in 0..100
            /\ r.grade = (CASE r.score >= 85 -> "A"
                            [] r.score >= 70 /\ r.score < 85 -> "B"
                            [] r.score >= 55 /\ r.score < 70 -> "C"
                            [] r.score >= 40 /\ r.score < 55 -> "D"
                            [] OTHER -> "F")
            /\ r.risk_level = (CASE r.grade \in {"A", "B"} -> "Low"
                                 [] r.grade = "C" -> "Medium"
                                 [] OTHER -> "High")

\* a graded call in which the cap of rule 1 applies (four tracking cookies
\* before consent) and every rule deducts, so that the score is clamped to 0
C3_Witness ==
    /\ pc = "returned"
    /\ consent_state = "before_consent"
    /\ cookie_result.category_counts["analytics"] = 2
    /\ cookie_result.category_counts["advertising"] = 2
    /\ cookie_result.category_counts["unknown"] > 3
    /\ Len(cookie_result.issues) = 5
    /\ cookie_result.score = 0
    /\ cookie_result.grade = "F"

\* the categories in the order classify_cookie is specified to test them
CategoryOrder == <<"analytics", "advertising", "session", "functional">>

\* the positions in CategoryOrder of the categories one of whose patterns is
\* found in the lower-cased name
MatchedCategories(name) ==
    {k \in 1..Len(CategoryOrder) :
        \E t \in 1..Len(TRACKER_PATTERNS) :
            /\ TRACKER_PATTERNS[t].category = CategoryOrder[k]
            /\ \E j \in 1..Len(TRACKER_PATTERNS[t].patterns) :
                   ReSearch(TRACKER_PATTERNS[t].patterns[j], Lower(name))}

\* C4: classify_cookie resolves a name matched by the patterns of several
\* categories to the earliest of them in the order analytics, advertising,
\* session, functional, and a name matched by no pattern to unknown.
C4_EarliestCategoryWins ==
    pc = "returned" =>
        LET matched == MatchedCategories(cookie_name)
        IN  IF matched = {} THEN category = "unknown"
            ELSE \E k \in matched :
                    /\ category = CategoryOrder[k]
                    /\ \A j \in matched : k <= j

\* a classified name that patterns of both advertising and session match
C4_Witness ==
    /\ pc = "returned"
    /\ MatchedCategories(cookie_name) = {2, 3}
    /\ category = "advertising"

---------------------------------------------------------------------------
(* Flaw Extractor: src/app.py                                              *)
(*                                                                         *)
(* A report is [categories |-> list of [name, isdict, subgroups]], the     *)
(* items of report["categories"] in the order of the dict; subgroups is    *)
(* the list of [name, islist, hits] of category_data["subgroups"]; a hit   *)
(* is [isdict, term, term_isstr, count, count_isnum].  The flags tell      *)
(* whether the value has the type the code expects of it.                  *)

\* _severity_rank(level)
_severity_rank(level) ==
    CASE level = "high" -> 0
      [] level = "medium" -> 1
      [] level = "low" -> 2
      [] OTHER -> 3

\* _flaw_reason(category_name, subgroup_name, term)
_flaw_reason(category_name, subgroup_name) ==
    IF StartsWith(category_name, <<"5", ".">>)
        THEN "Vague promise with legal wiggle room."
    ELSE IF StartsWith(category_name, <<"2", ".">>)
        THEN "Data may leave trusted boundaries."
    ELSE IF StartsWith(category_name, <<"1", ".">>) /\ subgroup_name = "High-Risk Identifiers"
        THEN "Sensitive identifiers enable direct tracking."
    ELSE IF StartsWith(category_name, <<"1", ".">>) /\ subgroup_name = "Automated Tracking"
        THEN "Passive tracking likely without awareness."
    ELSE IF StartsWith(category_name, <<"3", ".">>)
        THEN "User control rights may be limited."
    ELSE IF StartsWith(category_name, <<"4", ".">>) /\ subgroup_name = "Timelines"
        THEN "Retention window may be too broad."
    ELSE IF StartsWith(category_name, <<"4", ".">>)
        THEN "Security wording is broad, noncommittal."
    ELSE "Potential privacy risk indicator term."

\* a variant of the severity rule with a plausible defect: the subgroup of a
\* "1." category is not looked at
FlawSeverityAnySubgroup(category_name, subgroup_name) ==
    IF StartsWith(category_name, <<"5", ".">>) THEN "high"
    ELSE IF StartsWith(category_name, <<"2", ".">>) THEN "high"
    ELSE IF StartsWith(category_name, <<"1", ".">>) THEN "high"
    ELSE IF StartsWith(category_name, <<"4", ".">>) /\ subgroup_name = "Timelines"
        THEN "low"
    ELSE "medium"

\* the severity assigned in the loop over the hits
FlawSeverity(category_name, subgroup_name) ==
    IF StartsWith(category_name, <<"5", ".">>) THEN "high"
    ELSE IF StartsWith(category_name, <<"2", ".">>) THEN "high"
    ELSE IF StartsWith(category_name, <<"1", ".">>) /\ subgroup_name = "High-Risk Identifiers"
        THEN "high"
    ELSE IF StartsWith(category_name, <<"4", ".">>) /\ subgroup_name = "Timelines"
        THEN "low"
    ELSE "medium"

\* a variant of the sort key with a plausible defect: the count is not negated
FlawKeyLessEqCountAscending(a, b) ==
    LET ra == _severity_rank(a.severity)
        rb == _severity_rank(b.severity)
    IN  \/ ra < rb
        \/ ra = rb /\ a.count < b.count
        \/ ra = rb /\ a.count = b.count /\ ~StrLess(Lower(b.term), Lower(a.term))

\* key(a) <= key(b) for the sort key
\* (_severity_rank(severity), -count, term.lower())
FlawKeyLessEq(a, b) ==
    LET ra == _severity_rank(a.severity)
        rb == _severity_rank(b.severity)
    IN  \/ ra < rb
        \/ ra = rb /\ (0 - a.count) < (0 - b.count)
        \/ ra = rb /\ (0 - a.count) = (0 - b.count)
                   /\ ~StrLess(Lower(b.term), Lower(a.term))

\* flaws.sort(key=...): list.sort is stable
RECURSIVE SortFlaws(_)
SortFlaws(fl) ==
    IF fl = <<>> THEN <<>>
    ELSE LET n == Len(fl)
             rest == SortFlaws(SubSeq(fl, 1, n - 1))
             x == fl[n]
             pos == Cardinality({i \in 1..Len(rest) : FlawKeyLessEq(rest[i], x)})
         IN  SubSeq(rest, 1, pos) \o <<x>> \o SubSeq(rest, pos + 1, Len(rest))

\* the concatenation of a list of lists
RECURSIVE Flatten(_)
Flatten(lists) ==
    IF lists = <<>> THEN <<>> ELSE Head(lists) \o Flatten(Tail(lists))

\* the flaws appended for the hits of one subgroup
SubgroupFlaws(category_name, subgroup) ==
    [h \in 1..Len(subgroup.hits) |->
        [category |-> category_name,
         subgroup |-> subgroup.name,
         term |-> subgroup.hits[h].term,
         count |-> subgroup.hits[h].count,
         severity |-> FlawSeverity(category_name, subgroup.name),
         reason |-> _flaw_reason(category_name, subgroup.name)]]

\* the flaws appended for one category
CategoryFlaws(cat) ==
    Flatten([g \in 1..Len(cat.subgroups) |-> SubgroupFlaws(cat.name, cat.subgroups[g])])

\* whether _extract_flaws raises: .get or .items of a value that is not a
\* dict, iteration over hits that are not a list, or, in the sort key,
\* -count of a count that is not a number or .lower of a term that is not a
\* string
ExtractRaises(rep) ==
    \E c \in 1..Len(rep.categories) :
        \/ ~rep.categories[c].isdict
        \/ \E g \in 1..Len(rep.categories[c].subgroups) :
              LET sub == rep.categories[c].subgroups[g]
              IN  \/ ~sub.islist
                  \/ \E h \in 1..Len(sub.hits) :
                        \/ ~sub.hits[h].isdict
                        \/ ~sub.hits[h].term_isstr
                        \/ ~sub.hits[h].count_isnum

\* _extract_flaws(report)
_extract_flaws(rep) ==
    IF ExtractRaises(rep) THEN [raised |-> TRUE, flaws |-> <<>>]
    ELSE [raised |-> FALSE,
          flaws |-> SortFlaws(Flatten([c \in 1..Len(rep.categories) |->
                                          CategoryFlaws(rep.categories[c])]))]

---------------------------------------------------------------------------
(* Inputs of the flaw extractor                                            *)

\* the number of hits in a report
MaxHits == 3

\* the hits reports are made of, each with the category and subgroup it is
\* reported under
HitPool ==
    << [category |-> <<"5",".","V">>, subgroup |-> "Promises",
        term |-> <<"m","a","y">>, count |-> 3],
       [category |-> <<"2",".","S">>, subgroup |-> "Third Parties",
        term |-> <<"S","h","a","r","e">>, count |-> 1],
       [category |-> <<"1",".","C">>, subgroup |-> "High-Risk Identifiers",
        term |-> <<"s","s","n">>, count |-> 1],
       [category |-> <<"1",".","C">>, subgroup |-> "Automated Tracking",
        term |-> <<"l","o","g">>, count |-> 2],
       [category |-> <<"4",".","S">>, subgroup |-> "Timelines",
        term |-> <<"k","e","e","p">>, count |-> 2],
       [category |-> <<"4",".","S">>, subgroup |-> "Measures",
        term |-> <<"s","a","f","e">>, count |-> 1],
       [category |-> <<"3",".","R">>, subgroup |-> "Opt-Out",
        term |-> <<"s","h","a","r","e">>, count |-> 3],
       [category |-> <<"1","5",".","M">>, subgroup |-> "High-Risk Identifiers",
        term |-> <<"s","s","n">>, count |-> 2],
       [category |-> <<"1",".","C">>, subgroup |-> "High-Risk Identifiers",
        term |-> <<"S","S","N">>, count |-> 3],
       [category |-> <<"5",".","V">>, subgroup |-> "Timelines",
        term |-> <<"m","a","y">>, count |-> 1] >>

\* the list without the repetitions of its elements (first occurrences kept)
RECURSIVE Dedup(_)
Dedup(s) ==
    IF s = <<>> THEN <<>>
    ELSE LET d == Dedup(SubSeq(s, 1, Len(s) - 1))
         IN  IF \E i \in 1..Len(d) : d[i] = s[Len(s)] THEN d ELSE Append(d, s[Len(s)])

\* the report dict that holds the hits ps, inserted in this order
BuildReport(ps) ==
    LET catNames == Dedup([i \in 1..Len(ps) |-> ps[i].category])
        InCat(c) == SelectSeq(ps, LAMBDA p : p.category = c)
        SubNames(c) == Dedup([i \in 1..Len(InCat(c)) |-> InCat(c)[i].subgroup])
        InSub(c, g) == SelectSeq(InCat(c), LAMBDA p : p.subgroup = g)
        Hits(c, g) ==
            [i \in 1..Len(InSub(c, g)) |->
                [isdict |-> TRUE,
                 term |-> InSub(c, g)[i].term, term_isstr |-> TRUE,
                 count |-> InSub(c, g)[i].count, count_isnum |-> TRUE]]
    IN  [categories |->
            [k \in 1..Len(catNames) |->
                [name |-> catNames[k], isdict |-> TRUE,
                 subgroups |->
                    [j \in 1..Len(SubNames(catNames[k])) |->
                        [name |-> SubNames(catNames[k])[j], islist |-> TRUE,
                         hits |-> Hits(catNames[k], SubNames(catNames[k])[j])]]]]]

\* the ways in which the first entry of a report is malformed: the value of
\* its first category is None, the hits of its first subgroup are None, its
\* first hit is None, the term of that hit is None, or its count is None
Malformations == {"wellformed", "category", "hits", "hit", "term", "count"}

\* the report rep with its first entry malformed in the given way
Malform(rep, kind) ==
    IF kind = "wellformed" \/ rep.categories = <<>> THEN rep
    ELSE IF kind = "category"
    THEN [rep EXCEPT !.categories[1].isdict = FALSE, !.categories[1].subgroups = <<>>]
    ELSE IF kind = "hits"
    THEN [rep EXCEPT !.categories[1].subgroups[1].islist = FALSE,
                     !.categories[1].subgroups[1].hits = <<>>]
    ELSE IF kind = "hit"
    THEN [rep EXCEPT !.categories[1].subgroups[1].hits[1] =
                        [isdict |-> FALSE, term |-> <<>>, term_isstr |-> TRUE,
                         count |-> 0, count_isnum |-> TRUE]]
    ELSE IF kind = "term"
    THEN [rep EXCEPT !.categories[1].subgroups[1].hits[1].term = <<>>,
                     !.categories[1].subgroups[1].hits[1].term_isstr = FALSE]
    ELSE [rep EXCEPT !.categories[1].subgroups[1].hits[1].count = 0,
                     !.categories[1].subgroups[1].hits[1].count_isnum = FALSE]

Reports ==
    {Malform(BuildReport([i \in 1..Len(ix) |-> HitPool[ix[i]]]), kind) :
        ix \in IndexLists(MaxHits, Len(HitPool)), kind \in Malformations}

---------------------------------------------------------------------------
(* The call of the flaw extractor                                          *)

\* a call of _extract_flaws(report)
ExtractFlaws ==
    /\ pc = "ready"
    /\ LET r == _extract_flaws(report)
       IN  /\ flaws' = r.flaws
           /\ pc' = IF r.raised THEN "raised" ELSE "returned"
    /\ UNCHANGED <<report, parseVars, classifyVars, gradeVars, highlightVars,
                   breachVars, consensusVars>>

InitFlaws ==
    /\ pc = "ready"
    /\ report \in Reports
    /\ flaws = <<>>
    /\ IdleParse /\ IdleClassify /\ IdleGrade /\ IdleHighlight
    /\ IdleBreach /\ IdleConsensus

NextFlaws == ExtractFlaws

SpecFlaws == InitFlaws /\ [][NextFlaws]_vars

---------------------------------------------------------------------------
(* Properties of the flaw extractor                                        *)

\* the hits of a report: (category, subgroup, hit) positions
ReportHitPositions(rep) ==
    {<<c, g, h>> \in (1..MaxHits) \X (1..MaxHits) \X (1..MaxHits) :
        /\ c <= Len(rep.categories)
        /\ g <= Len(rep.categories[c].subgroups)
        /\ h <= Len(rep.categories[c].subgroups[g].hits)}

\* the flaw that is expected for the hit at a position
HitAt(rep, p) ==
    [category |-> rep.categories[p[1]].name,
     subgroup |-> rep.categories[p[1]].subgroups[p[2]].name,
     term |-> rep.categories[p[1]].subgroups[p[2]].hits[p[3]].term,
     count |-> rep.categories[p[1]].subgroups[p[2]].hits[p[3]].count]

\* the category, subgroup, term and count of a flaw
FlawHit(f) ==
    [category |-> f.category, subgroup |-> f.subgroup, term |-> f.term, count |-> f.count]

\* the severity ranks of the contract: high, then medium, then low
ContractRank(severity) ==
    CASE severity = "high" -> 1 [] severity = "medium" -> 2 [] severity = "low" -> 3

\* flaw a may stand before flaw b: severity rank ascending, then hit count
\* descending, then term case-insensitive ascending
InContractOrder(a, b) ==
    \/ ContractRank(a.severity) < ContractRank(b.severity)
    \/ /\ ContractRank(a.severity) = ContractRank(b.severity)
       /\ \/ a.count > b.count
          \/ a.count = b.count /\ ~StrLess(Lower(b.term), Lower(a.term))

\* whether the hit at a position is a record of a string term and a number
\* count
WellFormedHit(rep, p) ==
    LET hit == rep.categories[p[1]].subgroups[p[2]].hits[p[3]]
    IN  hit.isdict /\ hit.term_isstr /\ hit.count_isnum

\* whether a report is well-formed: every category value is a record, every
\* subgroup value a sequence, and every hit a record of a string and a number
WellFormed(rep) ==
    /\ \A c \in 1..Len(rep.categories) :
          /\ rep.categories[c].isdict
          /\ \A g \in 1..Len(rep.categories[c].subgroups) :
                rep.categories[c].subgroups[g].islist
    /\ \A p \in ReportHitPositions(rep) : WellFormedHit(rep, p)

\* C5: for every well-formed report, the list _extract_flaws returns holds
\* exactly one flaw per hit and is sorted by severity rank ascending, then hit
\* count descending, then term case-insensitive ascending.
C5_OneFlawPerHitInContractOrder ==
    (pc # "ready" /\ WellFormed(report)) =>
        /\ pc = "returned"
        /\ Len(flaws) = Cardinality(ReportHitPositions(report))
        /\ \A p \in ReportHitPositions(report) :
              Cardinality({q \in ReportHitPositions(report) :
                              HitAt(report, q) = HitAt(report, p)})
              = Cardinality({i \in 1..Len(flaws) : FlawHit(flaws[i]) = HitAt(report, p)})
        /\ \A i, j \in 1..Len(flaws) : i < j => InContractOrder(flaws[i], flaws[j])

\* three flaws returned in the reverse of the order of the report: the high
\* one first, then two medium ones, the one of the higher count first
C5_Witness ==
    /\ pc = "returned"
    /\ Len(flaws) = 3
    /\ Len(report.categories) = 3
    /\ flaws[1].category = report.categories[3].name
    /\ flaws[2].category = report.categories[2].name
    /\ flaws[3].category = report.categories[1].name
    /\ flaws[1].severity = "high"
    /\ flaws[2].severity = "medium" /\ flaws[3].severity = "medium"
    /\ flaws[2].count > flaws[3].count

\* the severity the rule table gives to a category name and subgroup name
C6_TableSeverity(category_name, subgroup_name) ==
    LET Prefix(d) == Len(category_name) >= 2 /\ category_name[1] = d /\ category_name[2] = "."
    IN  CASE Prefix("5") \/ Prefix("2") -> "high"
          [] Prefix("1") /\ subgroup_name = "High-Risk Identifiers" -> "high"
          [] Prefix("4") /\ subgroup_name = "Timelines" -> "low"
          [] OTHER -> "medium"

\* C6: the severity of every flaw is given by its category prefix and subgroup
\* name alone: high for "5." and "2.", and for "1." with "High-Risk
\* Identifiers"; low for "4." with "Timelines"; medium otherwise; the term and
\* the count never affect it.
C6_SeverityFromPrefixAndSubgroup ==
    pc = "returned" =>
        /\ \A i \in 1..Len(flaws) :
              flaws[i].severity = C6_TableSeverity(flaws[i].category, flaws[i].subgroup)
        /\ \A i, j \in 1..Len(flaws) :
              (flaws[i].category = flaws[j].category /\ flaws[i].subgroup = flaws[j].subgroup)
                  => flaws[i].severity = flaws[j].severity

\* "High-Risk Identifiers" under a category that only looks like "1."
\* (medium), and two hits of one subgroup of a "1." category that differ in
\* term and count (both high)
C6_Witness ==
    /\ pc = "returned"
    /\ \E j, k, m \in 1..Len(flaws) :
          /\ StartsWith(flaws[j].category, <<"1", "5", ".">>)
          /\ flaws[j].subgroup = "High-Risk Identifiers" /\ flaws[j].severity = "medium"
          /\ k # m
          /\ StartsWith(flaws[k].category, <<"1", ".">>)
          /\ flaws[k].category = flaws[m].category /\ flaws[k].subgroup = flaws[m].subgroup
          /\ flaws[k].term # flaws[m].term /\ flaws[k].count # flaws[m].count
          /\ flaws[k].severity = "high" /\ flaws[m].severity = "high"

---------------------------------------------------------------------------
(* Highlighter: src/app.py                                                 *)
(*                                                                         *)
(* A compiled term pattern is [term, elems, anchored, len]: elems are the  *)
(* elements of the escaped term (a literal character, matched ignoring     *)
(* case, or \s+), anchored tells whether it stands between two \b, and len *)
(* is the length of the pattern string, the key of the sort.  Positions    *)
(* are 1-based; a span [start, end] covers start .. end - 1.  Terms hold   *)
(* no backslash.                                                           *)

\* the characters re.escape writes with a backslash
ReSpecialChars ==
    {"(", ")", "[", "]", "{", "}", "?", "*", "+", "-", "|", "^", "$", "\\",
     ".", "&", "~", "#", " ", "\t", "\n"}

IsLetter(c) == (Ord[c] >= 65 /\ Ord[c] <= 90) \/ (Ord[c] >= 97 /\ Ord[c] <= 122)

\* \w
IsWord(c) == IsLetter(c) \/ (Ord[c] >= 48 /\ Ord[c] <= 57) \/ c = "_"

\* the length of what one character of the term becomes in the pattern:
\* re.escape, then "\ " replaced by "\s+"; the replacement of "\," never
\* applies, since re.escape writes a comma without a backslash
PatternCharLen(c) == IF c = " " THEN 3 ELSE IF c \in ReSpecialChars THEN 2 ELSE 1

\* _pattern_for_term(term)
_pattern_for_term(term) ==
    LET anchored == Len(term) > 0 /\ \A i \in 1..Len(term) : IsLetter(term[i]) \/ term[i] = "-"
    IN  [term |-> term,
         elems |-> [i \in 1..Len(term) |->
                       IF term[i] = " " THEN [kind |-> "ws", c |-> " "]
                       ELSE [kind |-> "lit", c |-> term[i]]],
         anchored |-> anchored,
         len |-> SumTo([i \in 1..Len(term) |-> PatternCharLen(term[i])], Len(term))
                    + (IF anchored THEN 4 ELSE 0)]

\* \b at position i of s
WordBoundary(s, i) ==
    (i > 1 /\ IsWord(s[i - 1])) # (i <= Len(s) /\ IsWord(s[i]))

\* the length of the run of whitespace of s that starts at position i
RECURSIVE SpaceRun(_, _)
SpaceRun(s, i) == IF i <= Len(s) /\ IsSpace(s[i]) THEN 1 + SpaceRun(s, i + 1) ELSE 0

\* the end of the match of elements k.. of a pattern at position i of s, 0
\* when there is none: literals ignoring case, \s+ greedy with backtracking,
\* and the closing \b of an anchored pattern
RECURSIVE MatchElems(_, _, _, _)
MatchElems(p, k, s, i) ==
    IF k > Len(p.elems)
    THEN IF p.anchored /\ ~WordBoundary(s, i) THEN 0 ELSE i
    ELSE IF p.elems[k].kind = "lit"
    THEN IF i <= Len(s) /\ LowerChar[s[i]] = LowerChar[p.elems[k].c]
         THEN MatchElems(p, k + 1, s, i + 1) ELSE 0
    ELSE LET ok == {n \in 1..SpaceRun(s, i) : MatchElems(p, k + 1, s, i + n) # 0}
         IN  IF ok = {} THEN 0
             ELSE MatchElems(p, k + 1, s, i + (CHOOSE n \in ok : \A m \in ok : n >= m))

\* the end of the match of one term pattern at position i of s, 0 when none
MatchPattern(p, s, i) ==
    IF p.anchored /\ ~WordBoundary(s, i) THEN 0 ELSE MatchElems(p, 1, s, i)

\* the end of the match of the alternation at position i: that of the first
\* alternative that matches; an empty match is refused when the scan must
\* advance
MatchCombined(patterns, s, i, mustAdvance) ==
    LET End(k) == MatchPattern(patterns[k], s, i)
        ok == {k \in 1..Len(patterns) : End(k) # 0 /\ (mustAdvance => End(k) > i)}
    IN  IF ok = {} THEN 0 ELSE End(CHOOSE k \in ok : \A j \in ok : k <= j)

\* combined_pattern.finditer(text) from position pos: the leftmost match, then
\* the scan goes on from its end; after an empty match the next one must not
\* be empty at the same position
RECURSIVE FindIter(_, _, _, _)
FindIter(patterns, s, pos, mustAdvance) ==
    LET End(i) == MatchCombined(patterns, s, i, mustAdvance /\ i = pos)
        starts == {i \in pos..(Len(s) + 1) : End(i) # 0}
    IN  IF starts = {} THEN <<>>
        ELSE LET i == CHOOSE x \in starts : \A y \in starts : x <= y
             IN  <<[start |-> i, end |-> End(i)]>>
                     \o FindIter(patterns, s, End(i), End(i) = i)

\* markupsafe.escape of one character
EscapeChar(c) ==
    CASE c = "&" -> <<"&","a","m","p",";">>
      [] c = "<" -> <<"&","l","t",";">>
      [] c = ">" -> <<"&","g","t",";">>
      [] c = "'" -> <<"&","#","3","9",";">>
      [] c = "\"" -> <<"&","#","3","4",";">>
      [] OTHER -> <<c>>

\* markupsafe.escape(s)
Escape(s) == Flatten([i \in 1..Len(s) |-> EscapeChar(s[i])])

PreOpen == <<"<","p","r","e"," ","c","l","a","s","s","=","'","p","o","l","i","c","y","-","t","e","x","t","'",">">>
PreClose == <<"<","/","p","r","e",">">>
MarkOpen == <<"<","m","a","r","k"," ","c","l","a","s","s","=","'","d","a","n","g","e","r","-","m","a","r","k","'",">">>
MarkClose == <<"<","/","m","a","r","k",">">>

\* a variant of the loop over the matches with a plausible defect: the text
\* after the last match is not appended
RECURSIVE HighlightPartsNoTail(_, _, _, _)
HighlightPartsNoTail(s, matches, k, cursor) ==
    IF k > Len(matches) THEN <<>>
    ELSE (IF matches[k].start > cursor
          THEN Escape(Slice(s, cursor, matches[k].start - 1)) ELSE <<>>)
         \o MarkOpen \o Escape(Slice(s, matches[k].start, matches[k].end - 1)) \o MarkClose
         \o HighlightPartsNoTail(s, matches, k + 1, matches[k].end)

\* "".join(parts): the loop over matches k.. with the cursor, then the text
\* that is left
RECURSIVE HighlightParts(_, _, _, _)
HighlightParts(s, matches, k, cursor) ==
    IF k > Len(matches)
    THEN IF cursor <= Len(s) THEN Escape(Slice(s, cursor, Len(s))) ELSE <<>>
    ELSE (IF matches[k].start > cursor
          THEN Escape(Slice(s, cursor, matches[k].start - 1)) ELSE <<>>)
         \o MarkOpen \o Escape(Slice(s, matches[k].start, matches[k].end - 1)) \o MarkClose
         \o HighlightParts(s, matches, k + 1, matches[k].end)

\* a variant of the choice of terms with a plausible defect: the severity is
\* not looked at
DangerousTermsAnySeverity(fl) == {fl[i].term : i \in 1..Len(fl)}

\* dangerous_terms: the terms of the flaws of severity high or medium
DangerousTerms(fl) ==
    {fl[i].term : i \in {j \in 1..Len(fl) : fl[j].severity \in {"high", "medium"}}}

\* sorted(patterns, key=len, reverse=True) over a set of terms: the sort is
\* stable and the iteration order of a set of strings is arbitrary, so
\* patterns of equal length may come out in either order.  The set of all
\* lists the call can return.
RECURSIVE SortedByLenDescending(_)
SortedByLenDescending(terms) ==
    IF terms = {} THEN {<<>>}
    ELSE LET longest == {t \in terms : \A u \in terms :
                            _pattern_for_term(u).len <= _pattern_for_term(t).len}
         IN  UNION {{<<_pattern_for_term(t)>> \o r : r \in SortedByLenDescending(terms \ {t})} :
                        t \in longest}

\* _highlight_dangers(text, flaws), given the list of patterns that the sort
\* returned: the spans of the matches and the markup
_highlight_dangers(s, fl, patterns) ==
    IF DangerousTerms(fl) = {}
    THEN [spans |-> <<>>, markup |-> PreOpen \o Escape(s) \o PreClose]
    ELSE LET matches == FindIter(patterns, s, 1, FALSE)
         IN  [spans |-> matches,
              markup |-> PreOpen \o HighlightParts(s, matches, 1, 1) \o PreClose]

---------------------------------------------------------------------------
(* Inputs of the highlighter                                               *)

\* the number of flaws in the list given to the highlighter
MaxFlaws == 2

HighlightTexts ==
    { <<>>,
      <<"a","b","!">>,
      <<"a"," ","b">>,
      <<"a"," ","\t","b"," ","a","b","!">>,
      <<"x","<","a","b"," ","A","B","&">>,
      <<"<","b",">","&","'","\"">>,
      <<"b"," ","a">>,
      <<"a","-","b"," ","a">> }

\* the flaws the lists are made of (the term and severity are all that
\* _highlight_dangers reads of a flaw)
FlawPool ==
    << [term |-> <<"a","b">>, severity |-> "high"],
       [term |-> <<"a","b","!">>, severity |-> "medium"],
       [term |-> <<"a"," ","b">>, severity |-> "high"],
       [term |-> <<"a">>, severity |-> "medium"],
       [term |-> <<"b">>, severity |-> "low"],
       [term |-> <<>>, severity |-> "medium"],
       [term |-> <<"a">>, severity |-> "low"],
       [term |-> <<"<","b">>, severity |-> "high"] >>

FlawLists ==
    {[i \in 1..Len(ix) |-> FlawPool[ix[i]]] : ix \in IndexLists(MaxFlaws, Len(FlawPool))}

---------------------------------------------------------------------------
(* The call of the highlighter                                             *)

\* a call of _highlight_dangers(text, flaws)
HighlightDangers ==
    /\ pc = "ready"
    /\ \E patterns \in SortedByLenDescending(DangerousTerms(flaws)) :
          LET r == _highlight_dangers(text, flaws, patterns)
          IN  spans' = r.spans /\ highlighted' = r.markup
    /\ pc' = "returned"
    /\ UNCHANGED <<text, report, flaws, parseVars, classifyVars, gradeVars,
                   breachVars, consensusVars>>

InitHighlight ==
    /\ pc = "ready"
    /\ text \in HighlightTexts
    /\ flaws \in FlawLists
    /\ report = <<>>
    /\ spans = <<>> /\ highlighted = <<>>
    /\ IdleParse /\ IdleClassify /\ IdleGrade /\ IdleBreach /\ IdleConsensus

NextHighlight == HighlightDangers

SpecHighlight == InitHighlight /\ [][NextHighlight]_vars

---------------------------------------------------------------------------
(* Properties of the highlighter                                           *)

\* the markup from position i on with the mark wrappers taken out
RECURSIVE RemoveMarks(_, _)
RemoveMarks(h, i) ==
    IF i > Len(h) THEN <<>>
    ELSE IF PrefixAt(h, i, MarkOpen) THEN RemoveMarks(h, i + Len(MarkOpen))
    ELSE IF PrefixAt(h, i, MarkClose) THEN RemoveMarks(h, i + Len(MarkClose))
    ELSE <<h[i]>> \o RemoveMarks(h, i + 1)

\* the character references of HTML that the escaping writes
Entities ==
    { [ref |-> <<"&","a","m","p",";">>, c |-> "&"],
      [ref |-> <<"&","l","t",";">>, c |-> "<"],
      [ref |-> <<"&","g","t",";">>, c |-> ">"],
      [ref |-> <<"&","#","3","9",";">>, c |-> "'"],
      [ref |-> <<"&","#","3","4",";">>, c |-> "\""] }

\* h from position i on with each character reference read back, left to right
RECURSIVE Unescape(_, _)
Unescape(h, i) ==
    IF i > Len(h) THEN <<>>
    ELSE LET here == {e \in Entities : PrefixAt(h, i, e.ref)}
         IN  IF here = {} THEN <<h[i]>> \o Unescape(h, i + 1)
             ELSE LET e == CHOOSE x \in here : TRUE
                  IN  <<e.c>> \o Unescape(h, i + Len(e.ref))

\* the markup without the outer preformatted wrapper
InsidePre(h) == Slice(h, Len(PreOpen) + 1, Len(h) - Len(PreClose))

\* the bodies of the marks of h, in order, each unescaped
RECURSIVE MarkBodies(_, _)
MarkBodies(h, i) ==
    IF i > Len(h) THEN <<>>
    ELSE IF PrefixAt(h, i, MarkOpen)
    THEN LET from == i + Len(MarkOpen)
             closes == {j \in from..Len(h) : PrefixAt(h, j, MarkClose)}
             to == CHOOSE j \in closes : \A k \in closes : j <= k
         IN  <<Unescape(Slice(h, from, to - 1), 1)>> \o MarkBodies(h, to + Len(MarkClose))
    ELSE MarkBodies(h, i + 1)

\* C7: when _highlight_dangers has returned, the markup stands inside the
\* preformatted wrapper, and taking the wrapper and the mark wrappers out and
\* unescaping gives the input text back exactly; the marked spans lie inside
\* the text, follow each other from left to right without overlapping, and
\* the marks of the markup hold, in order, exactly the text of the spans.
C7_RoundTripAndDisjointSpans ==
    pc = "returned" =>
        /\ StartsWith(highlighted, PreOpen)
        /\ PrefixAt(highlighted, Len(highlighted) - Len(PreClose) + 1, PreClose)
        /\ Unescape(RemoveMarks(InsidePre(highlighted), 1), 1) = text
        /\ \A k \in 1..Len(spans) :
              /\ 1 <= spans[k].start /\ spans[k].start <= spans[k].end
              /\ spans[k].end <= Len(text) + 1
              /\ k > 1 => spans[k - 1].end <= spans[k].start
        /\ MarkBodies(InsidePre(highlighted), 1)
              = [k \in 1..Len(spans) |-> Slice(text, spans[k].start, spans[k].end - 1)]

\* a text with characters to escape before, between, inside and after two
\* marks has been highlighted
C7_Witness ==
    /\ pc = "returned"
    /\ Len(spans) = 2
    /\ spans[1].start > 1 /\ spans[1].end < spans[2].start /\ spans[2].end <= Len(text)
    /\ \E i \in 1..(spans[1].start - 1) : EscapeChar(text[i]) # <<text[i]>>
    /\ \E i \in spans[2].end..Len(text) : EscapeChar(text[i]) # <<text[i]>>
    /\ Len(highlighted) > Len(text) + Len(PreOpen) + Len(PreClose)

\* the terms of the flaws of severity high or medium among the flaws given
FlaggedTerms == {flaws[i].term : i \in {j \in 1..Len(flaws) : flaws[j].severity \in {"high", "medium"}}}

\* C8: when _highlight_dangers has returned, for any two flagged terms of
\* which the longer contains the shorter, and any marked span at whose start
\* both terms match the text, the span is the match of the longer term.
C8_LongerTermPreferred ==
    pc = "returned" =>
        \A S \in FlaggedTerms : \A T \in FlaggedTerms :
            (Len(S) < Len(T) /\ Contains(T, S)) =>
                \A k \in 1..Len(spans) :
                    LET endS == MatchPattern(_pattern_for_term(S), text, spans[k].start)
                        endT == MatchPattern(_pattern_for_term(T), text, spans[k].start)
                    IN  (endS # 0 /\ endT # 0) => spans[k].end = endT

---------------------------------------------------------------------------
(* JSON decoding: json.loads, as _parse_breach_snapshot calls it           *)
(*                                                                         *)
(* A decoded value is a record with a tag t: "dict" (items: the pairs      *)
(* [k, v] in insertion order), "list" (items), "str" (s), "int" (n),       *)
(* "true", "false" or "null".  A scan returns [ok, v, pos]: whether it     *)
(* succeeded, the value, and the position after it.  The texts hold        *)
(* integers only and no escape other than \" \\ \/ \n \t.                  *)

JsonFail == [ok |-> FALSE, v |-> [t |-> "null"], pos |-> 0]

JsonOk(v, pos) == [ok |-> TRUE, v |-> v, pos |-> pos]

\* the whitespace of JSON (the carriage return is not among Chars)
IsJsonSpace(c) == c \in {" ", "\t", "\n"}

\* the position of the first character at or after i that is not whitespace
RECURSIVE SkipSpace(_, _)
SkipSpace(s, i) == IF i <= Len(s) /\ IsJsonSpace(s[i]) THEN SkipSpace(s, i + 1) ELSE i

IsDigit(c) == Ord[c] >= 48 /\ Ord[c] <= 57

\* the number of digits of s from position i on
RECURSIVE DigitRun(_, _)
DigitRun(s, i) == IF i <= Len(s) /\ IsDigit(s[i]) THEN 1 + DigitRun(s, i + 1) ELSE 0

\* int() of the n digits of s that start at position i
RECURSIVE DigitsValue(_, _, _)
DigitsValue(s, i, n) ==
    IF n = 0 THEN 0 ELSE 10 * DigitsValue(s, i, n - 1) + (Ord[s[i + n - 1]] - 48)

\* a string, from the character after its opening quote; acc is what has
\* been decoded; a control character inside a string is an error
RECURSIVE ScanString(_, _, _)
ScanString(s, i, acc) ==
    IF i > Len(s) THEN JsonFail
    ELSE IF s[i] = "\"" THEN JsonOk([t |-> "str", s |-> acc], i + 1)
    ELSE IF s[i] = "\\"
    THEN IF i + 1 > Len(s) THEN JsonFail
         ELSE IF s[i + 1] \in {"\"", "\\", "/"} THEN ScanString(s, i + 2, Append(acc, s[i + 1]))
         ELSE IF s[i + 1] = "n" THEN ScanString(s, i + 2, Append(acc, "\n"))
         ELSE IF s[i + 1] = "t" THEN ScanString(s, i + 2, Append(acc, "\t"))
         ELSE JsonFail
    ELSE IF Ord[s[i]] < 32 THEN JsonFail
    ELSE ScanString(s, i + 1, Append(acc, s[i]))

\* a number at position i: -?(0|[1-9][0-9]*)
ScanNumber(s, i) ==
    LET negative == s[i] = "-"
        d == IF negative THEN i + 1 ELSE i
        n == IF d <= Len(s) /\ s[d] = "0" THEN 1 ELSE DigitRun(s, d)
        value == DigitsValue(s, d, n)
    IN  IF n = 0 THEN JsonFail
        ELSE JsonOk([t |-> "int", n |-> IF negative THEN 0 - value ELSE value], d + n)

\* d[k] = v on the pairs of a dict: a key met again keeps its place and takes
\* the new value
DictSet(items, k, v) ==
    LET at == {j \in 1..Len(items) : items[j].k = k}
    IN  IF at = {} THEN Append(items, [k |-> k, v |-> v])
        ELSE [j \in 1..Len(items) |-> IF j \in at THEN [k |-> k, v |-> v] ELSE items[j]]

\* A value ("value"), the items of an array from the first character of an
\* item ("array"), or the pairs of an object from the opening quote of a key
\* ("object"), at position i; items are the items or pairs scanned so far.
RECURSIVE Scan(_, _, _, _)
Scan(what, s, i, items) ==
    IF i > Len(s) THEN JsonFail
    ELSE IF what = "array"
    THEN LET val == Scan("value", s, i, <<>>)
             e == SkipSpace(s, val.pos)
         IN  IF ~val.ok \/ e > Len(s) THEN JsonFail
             ELSE IF s[e] = "]"
             THEN JsonOk([t |-> "list", items |-> Append(items, val.v)], e + 1)
             ELSE IF s[e] = ","
             THEN Scan("array", s, SkipSpace(s, e + 1), Append(items, val.v))
             ELSE JsonFail
    ELSE IF what = "object"
    THEN IF s[i] # "\"" THEN JsonFail
         ELSE LET key == ScanString(s, i + 1, <<>>)
                  c == SkipSpace(s, key.pos)
              IN  IF ~key.ok \/ c > Len(s) \/ s[c] # ":" THEN JsonFail
                  ELSE LET val == Scan("value", s, SkipSpace(s, c + 1), <<>>)
                           e == SkipSpace(s, val.pos)
                       IN  IF ~val.ok \/ e > Len(s) THEN JsonFail
                           ELSE IF s[e] = "}"
                           THEN JsonOk([t |-> "dict",
                                        items |-> DictSet(items, key.v.s, val.v)], e + 1)
                           ELSE IF s[e] = ","
                           THEN Scan("object", s, SkipSpace(s, e + 1),
                                     DictSet(items, key.v.s, val.v))
                           ELSE JsonFail
    ELSE IF s[i] = "\"" THEN ScanString(s, i + 1, <<>>)
    ELSE IF s[i] = "{"
    THEN LET j == SkipSpace(s, i + 1)
         IN  IF j <= Len(s) /\ s[j] = "}" THEN JsonOk([t |-> "dict", items |-> <<>>], j + 1)
             ELSE Scan("object", s, j, <<>>)
    ELSE IF s[i] = "["
    THEN LET j == SkipSpace(s, i + 1)
         IN  IF j <= Len(s) /\ s[j] = "]" THEN JsonOk([t |-> "list", items |-> <<>>], j + 1)
             ELSE Scan("array", s, j, <<>>)
    ELSE IF PrefixAt(s, i, <<"n","u","l","l">>) THEN JsonOk([t |-> "null"], i + 4)
    ELSE IF PrefixAt(s, i, <<"t","r","u","e">>) THEN JsonOk([t |-> "true"], i + 4)
    ELSE IF PrefixAt(s, i, <<"f","a","l","s","e">>) THEN JsonOk([t |-> "false"], i + 5)
    ELSE IF s[i] = "-" \/ IsDigit(s[i]) THEN ScanNumber(s, i)
    ELSE JsonFail

\* a value at position i
ScanValue(s, i) == Scan("value", s, i, <<>>)

\* json.loads(s): one value between optional whitespace and nothing else;
\* ok is FALSE where json.loads raises
JsonLoads(s) ==
    LET r == ScanValue(s, SkipSpace(s, 1))
    IN  IF r.ok /\ SkipSpace(s, r.pos) = Len(s) + 1 THEN r ELSE JsonFail

\* d.get(k, default) on a decoded dict
DictGet(d, k, default) ==
    LET at == {j \in 1..Len(d.items) : d.items[j].k = k}
    IN  IF at = {} THEN default ELSE d.items[CHOOSE j \in at : TRUE].v

\* str(n) of a natural number
RECURSIVE NatToStr(_)
NatToStr(n) ==
    IF n < 10 THEN <<Printable[n + 17]>> ELSE Append(NatToStr(n \div 10), Printable[(n % 10) + 17])

\* str(n) of an integer
IntToStr(n) == IF n < 0 THEN <<"-">> \o NatToStr(0 - n) ELSE NatToStr(n)

\* repr(s) of a string: single quotes, unless it holds one and no double
\* quote; the quote, the backslash, newline and tab are written with a
\* backslash
ReprStr(s) ==
    LET has(c) == \E i \in 1..Len(s) : s[i] = c
        q == IF has("'") /\ ~has("\"") THEN "\"" ELSE "'"
        one(c) == IF c = q \/ c = "\\" THEN <<"\\", c>>
                  ELSE IF c = "\n" THEN <<"\\", "n">>
                  ELSE IF c = "\t" THEN <<"\\", "t">>
                  ELSE <<c>>
    IN  <<q>> \o Flatten([i \in 1..Len(s) |-> one(s[i])]) \o <<q>>

\* repr(v) of a decoded value
RECURSIVE PyRepr(_)
PyRepr(v) ==
    CASE v.t = "str" -> ReprStr(v.s)
      [] v.t = "int" -> IntToStr(v.n)
      [] v.t = "true" -> <<"T","r","u","e">>
      [] v.t = "false" -> <<"F","a","l","s","e">>
      [] v.t = "null" -> <<"N","o","n","e">>
      [] v.t = "list" ->
            <<"[">> \o Join([i \in 1..Len(v.items) |-> PyRepr(v.items[i])], <<",", " ">>) \o <<"]">>
      [] v.t = "dict" ->
            <<"{">> \o Join([i \in 1..Len(v.items) |->
                                ReprStr(v.items[i].k) \o <<":", " ">> \o PyRepr(v.items[i].v)],
                            <<",", " ">>) \o <<"}">>

\* str(v) of a decoded value
PyStr(v) == IF v.t = "str" THEN v.s ELSE PyRepr(v)

---------------------------------------------------------------------------
(* Breach Parser: src/app.py                                               *)

\* _extract_json_object(text): the slice from the first "{" to the last "}";
\* found is FALSE where the code returns None
_extract_json_object(s) ==
    LET opens == {i \in 1..Len(s) : s[i] = "{"}
        closes == {i \in 1..Len(s) : s[i] = "}"}
        start == CHOOSE i \in opens : \A j \in opens : i <= j
        end == CHOOSE i \in closes : \A j \in closes : i >= j
    IN  IF opens = {} \/ closes = {} THEN [found |-> FALSE, payload |-> <<>>]
        ELSE IF end <= start THEN [found |-> FALSE, payload |-> <<>>]
        ELSE [found |-> TRUE, payload |-> SubSeq(s, start, end)]

\* _normalize_severity(level)
_normalize_severity(level) ==
    LET normalized == Lower(Strip(level))
    IN  IF normalized \in {<<"h","i","g","h">>, <<"c","r","i","t","i","c","a","l">>, <<"s","e","v","e","r","e">>}
        THEN "high"
        ELSE IF normalized \in {<<"m","e","d","i","u","m">>, <<"m","o","d","e","r","a","t","e">>}
        THEN "medium"
        ELSE "low"

\* a variant of the deduction with a plausible defect: the severity is not
\* found in the table and every incident costs the default
BreachDeductionDefault(severity) == 8

\* deductions.get(severity, 8)
BreachDeduction(severity) ==
    CASE severity = "high" -> 28
      [] severity = "medium" -> 16
      [] OTHER -> 8

\* _breach_grade(incidents)
_breach_grade(incidents) ==
    LET score == Max(0, 100 - SumTo([i \in 1..Len(incidents) |->
                                        BreachDeduction(incidents[i].severity)],
                                    Len(incidents)))
    IN  IF score >= 85 THEN [grade |-> "A", risk_level |-> "Low"]
        ELSE IF score >= 70 THEN [grade |-> "B", risk_level |-> "Low"]
        ELSE IF score >= 55 THEN [grade |-> "C", risk_level |-> "Medium"]
        ELSE IF score >= 40 THEN [grade |-> "D", risk_level |-> "High"]
        ELSE [grade |-> "F", risk_level |-> "High"]

EmptyStr == [t |-> "str", s |-> <<>>]

\* the body of the loop over parsed["incidents"] for one element that is a
\* dict: the incident, and whether it is appended (its event is not empty)
StructuredIncident(raw) ==
    LET field(k) == Strip(PyStr(DictGet(raw, k, EmptyStr)))
        event == field(<<"e","v","e","n","t">>)
        impact == field(<<"i","m","p","a","c","t">>)
        date == field(<<"d","a","t","e">>)
        source_url == field(<<"s","o","u","r","c","e","_","u","r","l">>)
        severity == _normalize_severity(PyStr(DictGet(raw, <<"s","e","v","e","r","i","t","y">>, EmptyStr)))
    IN  [keep |-> event # <<>>,
         incident |->
            [date |-> IF date # <<>> THEN date ELSE <<"U","n","k","n","o","w","n">>,
             event |-> event,
             impact |-> IF impact # <<>> THEN impact ELSE <<"I","m","p","a","c","t"," ","n","o","t"," ","s","p","e","c","i","f","i","e","d",".">>,
             severity |-> severity,
             source_url |-> IF StartsWith(source_url, <<"h","t","t","p",":","/","/">>) \/ StartsWith(source_url, <<"h","t","t","p","s",":","/","/">>)
                            THEN source_url ELSE <<>>]]

\* whether the loop appends an incident for the element raw
KeepsIncident(raw) == raw.t = "dict" /\ StructuredIncident(raw).keep

\* a variant of the branch of a decoded dict with a plausible defect: the
\* elements are filtered first and the first five usable ones are kept
StructuredBranchFiveKept(parsed) ==
    LET synopsis == Strip(PyStr(DictGet(parsed, <<"s","y","n","o","p","s","i","s">>, EmptyStr)))
        raw_incidents == DictGet(parsed, <<"i","n","c","i","d","e","n","t","s">>, [t |-> "list", items |-> <<>>])
        usable == SelectSeq(raw_incidents.items, KeepsIncident)
        kept == SubSeq(usable, 1, Min(5, Len(usable)))
    IN  IF raw_incidents.t = "list"
        THEN [raised |-> FALSE, synopsis |-> synopsis,
              incidents |-> [i \in 1..Len(kept) |-> StructuredIncident(kept[i]).incident]]
        ELSE IF raw_incidents.t = "str"
        THEN [raised |-> FALSE, synopsis |-> synopsis, incidents |-> <<>>]
        ELSE [raised |-> TRUE, synopsis |-> synopsis, incidents |-> <<>>]

\* the branch of a decoded dict: parsed.get("incidents", [])[:5] raises a
\* TypeError (a KeyError for a dict, from Python 3.12 on) unless the value is
\* a list or a string; the characters of a string are not dicts and give no
\* incident
StructuredBranch(parsed) ==
    LET synopsis == Strip(PyStr(DictGet(parsed, <<"s","y","n","o","p","s","i","s">>, EmptyStr)))
        raw_incidents == DictGet(parsed, <<"i","n","c","i","d","e","n","t","s">>, [t |-> "list", items |-> <<>>])
        first5 == SubSeq(raw_incidents.items, 1, Min(5, Len(raw_incidents.items)))
        kept == SelectSeq(first5, KeepsIncident)
    IN  IF raw_incidents.t = "list"
        THEN [raised |-> FALSE, synopsis |-> synopsis,
              incidents |-> [i \in 1..Len(kept) |-> StructuredIncident(kept[i]).incident]]
        ELSE IF raw_incidents.t = "str"
        THEN [raised |-> FALSE, synopsis |-> synopsis, incidents |-> <<>>]
        ELSE [raised |-> TRUE, synopsis |-> synopsis, incidents |-> <<>>]

\* str.splitlines(): the newline is the one line boundary among Chars
RECURSIVE SplitLines(_)
SplitLines(s) ==
    LET nl == {i \in 1..Len(s) : s[i] = "\n"}
        i == CHOOSE x \in nl : \A y \in nl : x <= y
    IN  IF nl = {} THEN (IF s = <<>> THEN <<>> ELSE <<s>>)
        ELSE <<Slice(s, 1, i - 1)>> \o SplitLines(Slice(s, i + 1, Len(s)))

NotBlank(line) == Strip(line) # <<>>

\* re.sub(r"^[-*BULLET\s]+", "", line)
StripBullets(line) ==
    LET keep == {i \in 1..Len(line) : ~(line[i] \in {"-", "*", "BULLET"} \/ IsSpace(line[i]))}
    IN  IF keep = {} THEN <<>>
        ELSE Slice(line, CHOOSE i \in keep : \A j \in keep : i <= j, Len(line))

\* line.split(":", 1)[1] of a line that holds a colon
AfterFirstColon(line) ==
    LET at == {i \in 1..Len(line) : line[i] = ":"}
    IN  Slice(line, (CHOOSE i \in at : \A j \in at : i <= j) + 1, Len(line))

\* the loop over the lines from line k on, with the incidents and the
\* synopsis so far; it breaks at five incidents
RECURSIVE LineLoop(_, _, _, _)
LineLoop(lines, k, incidents, synopsis) ==
    IF k > Len(lines) THEN [incidents |-> incidents, synopsis |-> synopsis]
    ELSE LET line == lines[k]
             cleaned_line == Strip(StripBullets(line))
             appended == Append(incidents,
                                [date |-> <<"U","n","k","n","o","w","n">>,
                                 event |-> cleaned_line,
                                 impact |-> <<"D","e","t","a","i","l","s"," ","n","o","t"," ","s","t","r","u","c","t","u","r","e","d"," ","b","y"," ","m","o","d","e","l"," ","o","u","t","p","u","t",".">>,
                                 severity |-> "medium",
                                 source_url |-> <<>>])
         IN  IF StartsWith(line, <<"GRAVE", "GRAVE", "GRAVE">>)
             THEN LineLoop(lines, k + 1, incidents, synopsis)
             ELSE IF StartsWith(Lower(line), <<"s","y","n","o","p","s","i","s",":">>)
             THEN LineLoop(lines, k + 1, incidents, Strip(AfterFirstColon(line)))
             ELSE IF cleaned_line = <<>> \/ cleaned_line \in {<<"{">>, <<"}">>}
             THEN LineLoop(lines, k + 1, incidents, synopsis)
             ELSE IF Len(appended) >= 5
             THEN [incidents |-> appended, synopsis |-> synopsis]
             ELSE LineLoop(lines, k + 1, appended, synopsis)

\* the branch of a text that is not a JSON object; a synopsis left empty is
\* replaced in this branch only
LineBranch(s) ==
    LET stripped == [i \in 1..Len(SplitLines(s)) |-> Strip(SplitLines(s)[i])]
        r == LineLoop(SelectSeq(stripped, NotBlank), 1, <<>>, <<>>)
    IN  [raised |-> FALSE,
         synopsis |-> IF r.synopsis = <<>>
                      THEN <<"M","o","d","e","l"," ","r","e","t","u","r","n","e","d"," ","u","n","s","t","r","u","c","t","u","r","e","d"," ","o","u","t","p","u","t",";"," ","r","e","v","i","e","w"," ","m","a","n","u","a","l","l","y",".">>
                      ELSE r.synopsis,
         incidents |-> r.incidents]

\* sorted(S) of a set of strings
RECURSIVE SortedStrings(_)
SortedStrings(S) ==
    IF S = {} THEN <<>>
    ELSE LET m == CHOOSE x \in S : \A y \in S : x = y \/ StrLess(x, y)
         IN  <<m>> \o SortedStrings(S \ {m})

\* json.loads(json_payload) inside the try block: ok is FALSE for None
DecodedPayload(json_payload) ==
    IF json_payload.found THEN JsonLoads(json_payload.payload) ELSE JsonFail

\* a parser that falls back to the lines of the text when the decoded object
\* gives no incident
FallbackOf(b, s) ==
    IF b.raised \/ b.incidents # <<>> THEN b ELSE LineBranch(s)

BranchOfFallback(s, parsed) ==
    IF parsed.ok /\ parsed.v.t = "dict"
    THEN FallbackOf(StructuredBranch(parsed.v), s)
    ELSE LineBranch(s)

\* the branch taken for the text s, given what was decoded
BranchOf(s, parsed) ==
    IF parsed.ok /\ parsed.v.t = "dict" THEN StructuredBranch(parsed.v) ELSE LineBranch(s)

\* the sources and the grade of the incidents of a branch, and the tuple
\* that is returned
BreachResult(b) ==
    [raised |-> b.raised,
     incidents |-> b.incidents,
     synopsis |-> b.synopsis,
     sources |-> SortedStrings({b.incidents[i].source_url : i \in 1..Len(b.incidents)} \ {<<>>}),
     grade |-> _breach_grade(b.incidents).grade,
     risk_level |-> _breach_grade(b.incidents).risk_level]

\* _parse_breach_snapshot(snapshot_text): raised tells that the call raises
_parse_breach_snapshot(s) ==
    BreachResult(BranchOf(s, DecodedPayload(_extract_json_object(s))))

---------------------------------------------------------------------------
(* Inputs of the breach parser                                             *)

\* the number of elements of the incidents array of a JSON text
MaxItems == 6

\* the number of lines of an unstructured text, its synopsis line aside
MaxLines == 6

\* elements of the incidents array, as written in the text
ItemPool ==
    << <<"{","\"","e","v","e","n","t","\"",":"," ","\"","l","e","a","k","\"",","," ","\"","s","e","v","e","r","i","t","y","\"",":"," ","\"","H","i","g","h","\"",","," ","\"","s","o","u","r","c","e","_","u","r","l","\"",":"," ","\"","h","t","t","p","s",":","/","/","b",".","e","x","a","m","p","l","e","\"","}">>,
       <<"{","\"","e","v","e","n","t","\"",":"," ","\"","h","a","c","k","\"",","," ","\"","s","e","v","e","r","i","t","y","\"",":"," ","\"","m","o","d","e","r","a","t","e","\"",","," ","\"","d","a","t","e","\"",":"," ","\"","2","0","2","1","\"",","," ","\"","s","o","u","r","c","e","_","u","r","l","\"",":"," ","\"","h","t","t","p",":","/","/","a",".","e","x","a","m","p","l","e","\"","}">>,
       <<"{","\"","e","v","e","n","t","\"",":"," ","\"","\"",","," ","\"","s","e","v","e","r","i","t","y","\"",":"," ","\"","h","i","g","h","\"","}">>,
       <<"\"","t","e","x","t","\"">>,
       <<"{","\"","e","v","e","n","t","\"",":"," ","n","u","l","l",","," ","\"","s","e","v","e","r","i","t","y","\"",":"," ","n","u","l","l","}">>,
       <<"{","\"","e","v","e","n","t","\"",":"," ","\""," ","f","i","n","e"," ","\"",","," ","\"","s","e","v","e","r","i","t","y","\"",":"," ","\""," ","C","R","I","T","I","C","A","L"," ","\"",","," ","\"","d","a","t","e","\"",":"," ","2","0","2","0",","," ","\"","i","m","p","a","c","t","\"",":"," ","[","\"","x","\"",","," ","1","]",","," ","\"","s","o","u","r","c","e","_","u","r","l","\"",":"," ","\"","f","t","p",":","/","/","c","\"","}">>,
       <<"{","\"","s","e","v","e","r","i","t","y","\"",":"," ","\"","l","o","w","\"",","," ","\"","e","v","e","n","t","\"",":"," ","\"","o","l","d","\"",","," ","\"","e","v","e","n","t","\"",":"," ","\"","s","p","i","l","l","\"",","," ","\"","i","m","p","a","c","t","\"",":"," ","{","\"","n","\"",":"," ","-","4","}","}">>,
       <<"n","u","l","l">> >>

\* the synopsis member of the object, as written in the text (empty: none)
SynopsisMembers ==
    << <<>>,
       <<"\"","s","y","n","o","p","s","i","s","\"",":"," ","\"","T","w","o"," ","i","n","c","i","d","e","n","t","s",".","\"">>,
       <<"\"","s","y","n","o","p","s","i","s","\"",":"," ","n","u","l","l">>,
       <<"\"","s","y","n","o","p","s","i","s","\"",":"," ","\""," ","\"">>,
       <<"\"","s","y","n","o","p","s","i","s","\"",":"," ","[","\"","i","t","'","s","\"",","," ","t","r","u","e","]">> >>

\* an incidents member that is not an array (empty: none)
IncidentsMembers ==
    << <<>>,
       <<"\"","i","n","c","i","d","e","n","t","s","\"",":"," ","n","u","l","l">>,
       <<"\"","i","n","c","i","d","e","n","t","s","\"",":"," ","3">>,
       <<"\"","i","n","c","i","d","e","n","t","s","\"",":"," ","{","\"","a","\"",":"," ","1","}">>,
       <<"\"","i","n","c","i","d","e","n","t","s","\"",":"," ","\"","n","o","n","e","\"">>,
       <<"\"","i","n","c","i","d","e","n","t","s","\"",":"," ","f","a","l","s","e">> >>

\* lines of an unstructured text
LinePool ==
    << <<"-"," ","B","r","e","a","c","h"," ","i","n"," ","2","0","1","9">>,
       <<"*"," ","l","e","a","k"," ","o","f"," ","e","m","a","i","l","s">>,
       <<"BULLET"," ","2","0","2","1"," ","h","a","c","k">>,
       <<"p","l","a","i","n"," ","l","i","n","e">>,
       <<"-"," ","f","i","n","e",":"," ","p","a","i","d">>,
       <<"-","*"," ","2","0","1","8",":"," ","f","i","n","e","d">>,
       <<"GRAVE","GRAVE","GRAVE","j","s","o","n">>,
       <<"{">>,
       <<"-","-"," ","*"," ">>,
       <<"*"," "," ","}">>,
       <<" "," ">> >>

\* synopsis lines of an unstructured text
SynopsisLines ==
    << <<"S","y","n","o","p","s","i","s",":"," ","T","h","r","e","e"," ","e","v","e","n","t","s",".">>,
       <<"S","Y","N","O","P","S","I","S",":">> >>

\* texts that hold no JSON object, or a broken one
OtherTexts ==
    << <<>>,
       <<"{">>,
       <<"}","{">>,
       <<"{","}">>,
       <<"n","o"," ","i","n","c","i","d","e","n","t","s"," ","f","o","u","n","d">>,
       <<"{","\"","s","y","n","o","p","s","i","s","\"",":"," ","\"","s","\"","}"," ","a","n","d"," ","{","\"","a","\"",":"," ","1","}">>,
       <<"{","\"","i","n","c","i","d","e","n","t","s","\"",":"," ","[","{","\"","e","v","e","n","t","\"",":"," ","\"","e","\"","}",",","]","}">>,
       <<"{","\"","s","y","n","o","p","s","i","s","\"",":"," ","\"","a","\t","b","\"",","," ","\"","i","n","c","i","d","e","n","t","s","\"",":"," ","[","]","}">>,
       <<"{","\"","s","y","n","o","p","s","i","s","\"",":"," ","\"","a","\\","t","b","\\","\"","c","\"",","," ","\"","i","n","c","i","d","e","n","t","s","\"",":"," ","[","{","\"","e","v","e","n","t","\"",":"," ","\"","q","\\","\\","\"","}","]","}">>,
       <<"{","\"","i","n","c","i","d","e","n","t","s","\"",":"," ","[","0","1","]","}">>,
       <<"[","{","\"","e","v","e","n","t","\"",":"," ","\"","e","\"","}","]">>,
       <<"{","\"","s","y","n","o","p","s","i","s","\"",":"," ","\"","x","\"">>,
       <<"S","y","n","o","p","s","i","s",":"," ","s","\n","{","\"","s","y","n","o","p","s","i","s","\"",":"," ","\"","t","\"","}">> >>

\* n elements of a pool, from the element at `start` on and round again
Window(pool, start, n) == [i \in 1..n |-> pool[((start + i - 2) % Len(pool)) + 1]]

\* the incidents member that is an array of n elements
ArrayMember(start, n) ==
    <<"\"","i","n","c","i","d","e","n","t","s","\"",":"," ","[">> \o Join(Window(ItemPool, start, n), <<",", " ">>) \o <<"]">>

NotEmpty(s) == s # <<>>

\* the text of the object with the given members
ObjectText(members) == <<"{">> \o Join(SelectSeq(members, NotEmpty), <<",", " ">>) \o <<"}">>

\* what stands before and after the object in the text
Wrappers ==
    { [pre |-> <<>>, post |-> <<>>],
      [pre |-> <<"H","e","r","e"," ","i","s"," ","t","h","e"," ","r","e","s","u","l","t",":","\n","GRAVE","GRAVE","GRAVE","j","s","o","n","\n">>, post |-> <<"\n","GRAVE","GRAVE","GRAVE">>] }

JsonTexts ==
    {w.pre \o ObjectText(<<SynopsisMembers[sy], m>>) \o w.post :
        w \in Wrappers, sy \in 1..Len(SynopsisMembers),
        m \in {IncidentsMembers[i] : i \in 1..Len(IncidentsMembers)}
              \cup {ArrayMember(start, n) : start \in 1..Len(ItemPool), n \in 0..MaxItems}}

\* the list with x put in at position q, or the list itself when q = 0
InsertAt(list, q, x) ==
    IF q = 0 THEN list ELSE SubSeq(list, 1, q - 1) \o <<x>> \o SubSeq(list, q, Len(list))

LineTexts ==
    UNION {{Join(InsertAt(Window(LinePool, start, n), q, SynopsisLines[sl]), <<"\n">>) :
                start \in 1..Len(LinePool), q \in 0..(n + 1), sl \in 1..Len(SynopsisLines)} :
           n \in 0..MaxLines}

\* a text whose incidents cost more than 100 points
WorstText ==
    <<"{","\"","i","n","c","i","d","e","n","t","s","\"",":"," ","[","{","\"","e","v","e","n","t","\"",":"," ","\"","a","\"",","," ","\"","s","e","v","e","r","i","t","y","\"",":"," ","\"","h","i","g","h","\"","}",","," ","{","\"","e","v","e","n","t","\"",":"," ","\"","b","\"",","," ","\"","s","e","v","e","r","i","t","y","\"",":"," ","\"","c","r","i","t","i","c","a","l","\"","}",","," ","{","\"","e","v","e","n","t","\"",":"," ","\"","c","\"",","," ","\"","s","e","v","e","r","i","t","y","\"",":"," ","\"","s","e","v","e","r","e","\"","}",","," ","{","\"","e","v","e","n","t","\"",":"," ","\"","d","\"",","," ","\"","s","e","v","e","r","i","t","y","\"",":"," ","\"","H","i","g","h","\"","}",","," ","{","\"","e","v","e","n","t","\"",":"," ","\"","e","\"",","," ","\"","s","e","v","e","r","i","t","y","\"",":"," ","\"","m","e","d","i","u","m","\"","}","]","}">>

SnapshotTexts ==
    JsonTexts \cup LineTexts \cup {OtherTexts[i] : i \in 1..Len(OtherTexts)} \cup {WorstText}

---------------------------------------------------------------------------
(* The call of the breach parser                                           *)

\* a call of _parse_breach_snapshot(snapshot_text)
ParseBreachSnapshot ==
    /\ pc = "ready"
    /\ \E r \in {_parse_breach_snapshot(snapshot_text)} :
          IF r.raised
          THEN breach_result' = <<>> /\ pc' = "raised"
          ELSE /\ breach_result' = [incidents |-> r.incidents, synopsis |-> r.synopsis,
                                    sources |-> r.sources, grade |-> r.grade,
                                    risk_level |-> r.risk_level]
               /\ pc' = "returned"
    /\ UNCHANGED <<snapshot_text, parseVars, classifyVars, gradeVars, flawVars,
                   highlightVars, consensusVars>>

InitBreach ==
    /\ pc = "ready"
    /\ snapshot_text \in SnapshotTexts
    /\ breach_result = <<>>
    /\ IdleParse /\ IdleClassify /\ IdleGrade /\ IdleFlaws /\ IdleHighlight /\ IdleConsensus

NextBreach == ParseBreachSnapshot

SpecBreach == InitBreach /\ [][NextBreach]_vars

---------------------------------------------------------------------------
(* Properties of the breach parser                                         *)

\* C2: a call of _parse_breach_snapshot never raises; whatever the text,
\* once the call is over it has returned a result, with a list of incidents
\* and a synopsis.
C2_ParseNeverRaises ==
    /\ pc # "raised"
    /\ pc = "returned" => DOMAIN breach_result
                             = {"incidents", "synopsis", "sources", "grade", "risk_level"}

---------------------------------------------------------------------------
(* Aggregator: src/app.py                                                  *)
(*                                                                         *)
(* The points of a grade are whole numbers and their average is kept as a  *)
(* fraction [num, den], compared with a threshold k/2 by cross             *)
(* multiplication: with at most three components the float division and    *)
(* comparison of the code are exact at every threshold.  The grades of the *)
(* components are letters returned by _privacy_grade,                      *)
(* grade_cookie_truthfulness and _breach_grade, which strip() and upper()  *)
(* leave as they are.                                                      *)

\* _grade_to_points(letter)
_grade_to_points(letter) ==
    CASE letter = "A" -> 4
      [] letter = "B" -> 3
      [] letter = "C" -> 2
      [] letter = "D" -> 1
      [] letter = "F" -> 0
      [] OTHER -> 0

\* points >= k/2 for points = num/den
AtLeastHalves(points, k) == 2 * points.num >= k * points.den

\* a variant of _points_to_grade with a plausible defect: the thresholds are
\* exclusive
_points_to_grade_exclusive(points) ==
    IF 2 * points.num > 7 * points.den THEN "A"
    ELSE IF 2 * points.num > 5 * points.den THEN "B"
    ELSE IF 2 * points.num > 3 * points.den THEN "C"
    ELSE IF 2 * points.num > 1 * points.den THEN "D"
    ELSE "F"

\* _points_to_grade(points)
_points_to_grade(points) ==
    IF AtLeastHalves(points, 7) THEN "A"
    ELSE IF AtLeastHalves(points, 5) THEN "B"
    ELSE IF AtLeastHalves(points, 3) THEN "C"
    ELSE IF AtLeastHalves(points, 1) THEN "D"
    ELSE "F"

\* _grade_to_risk(letter)
_grade_to_risk(letter) ==
    IF letter \in {"A", "B"} THEN "Low"
    ELSE IF letter = "C" THEN "Medium"
    ELSE "High"

\* the three appends to final_grade_components
Components(g, cg, lookup, bg) ==
    (IF g # "" THEN <<[label |-> "Policy", grade |-> g]>> ELSE <<>>)
    \o (IF cg # "" THEN <<[label |-> "Cookie", grade |-> cg]>> ELSE <<>>)
    \o (IF lookup /\ bg # "" THEN <<[label |-> "Breach", grade |-> bg]>> ELSE <<>>)

\* a variant of the average with a plausible defect: the sum is divided by
\* the number of kinds of component, not by the number of components
AveragePointsOfThree(components) ==
    [num |-> SumTo([i \in 1..Len(components) |-> _grade_to_points(components[i].grade)],
                   Len(components)),
     den |-> 3]

\* sum(...) / len(final_grade_components)
AveragePoints(components) ==
    [num |-> SumTo([i \in 1..Len(components) |-> _grade_to_points(components[i].grade)],
                   Len(components)),
     den |-> Len(components)]

\* a variant of the consensus with a plausible defect: the average is taken
\* of an empty list too, as 0/0
ConsensusOfUnguarded(components) ==
    [grade |-> _points_to_grade(AveragePoints(components)),
     risk_level |-> _grade_to_risk(_points_to_grade(AveragePoints(components)))]

\* final_grade and final_grade_risk: computed when there is a component, left
\* at "" otherwise
ConsensusOf(components) ==
    IF components # <<>>
    THEN [grade |-> _points_to_grade(AveragePoints(components)),
          risk_level |-> _grade_to_risk(_points_to_grade(AveragePoints(components)))]
    ELSE [grade |-> "", risk_level |-> ""]

\* None, where a generator returns no text
NoSnapshot == [some |-> FALSE, text |-> <<>>]

\* the values of the breach variables before a snapshot is parsed
NoBreach ==
    [raised |-> FALSE, snapshot |-> NoSnapshot, incidents |-> <<>>, synopsis |-> <<>>,
     grade |-> ""]

\* the breach variables after the text of a snapshot is parsed
ParsedSnapshot(snapshot, r) ==
    [raised |-> r.raised, snapshot |-> snapshot, incidents |-> r.incidents,
     synopsis |-> r.synopsis, grade |-> IF r.raised THEN "" ELSE r.grade]

\* the breach variables after the primary snapshot
AfterPrimary(primary) ==
    IF primary.some
    THEN ParsedSnapshot(primary, _parse_breach_snapshot(primary.text))
    ELSE NoBreach

\* not breach_items or "generic domain" in breach_synopsis.lower()
NeedsLegacy(b) ==
    b.incidents = <<>>
    \/ Contains(Lower(b.synopsis), <<"g","e","n","e","r","i","c"," ","d","o","m","a","i","n">>)

\* a variant of the legacy step with a plausible defect: a legacy generation
\* that returns no text discards what the primary snapshot gave
AfterLegacyOnly(b, legacy) ==
    IF b.raised \/ ~NeedsLegacy(b) THEN b
    ELSE IF legacy.some
    THEN ParsedSnapshot(legacy, _parse_breach_snapshot(legacy.text))
    ELSE NoBreach

\* the breach variables after the legacy snapshot, which is generated when
\* the primary one gave no incidents or a synopsis about a generic domain,
\* and replaces the primary one when it is a text
AfterLegacy(b, legacy) ==
    IF b.raised \/ ~NeedsLegacy(b) THEN b
    ELSE IF legacy.some
    THEN ParsedSnapshot(legacy, _parse_breach_snapshot(legacy.text))
    ELSE b

\* the breach lookup of compare_cookie_audit
BreachLookup(lookup, primary, legacy) ==
    IF lookup THEN AfterLegacy(AfterPrimary(primary), legacy) ELSE NoBreach

---------------------------------------------------------------------------
(* Inputs and call of the aggregator                                       *)

Grades == {"A", "B", "C", "D", "F"}

\* what a generator returns: None, or the text of a model
GeneratedSnapshots ==
    {NoSnapshot} \cup
    {[some |-> TRUE, text |-> t] : t \in
        { <<"{","\"","i","n","c","i","d","e","n","t","s","\"",":"," ","[","]",","," ","\"","s","y","n","o","p","s","i","s","\"",":"," ","\"","n","o","n","e"," ","k","n","o","w","n","\"","}">>,
          <<"{","\"","i","n","c","i","d","e","n","t","s","\"",":"," ","[","{","\"","e","v","e","n","t","\"",":"," ","\"","l","e","a","k","\"",","," ","\"","s","e","v","e","r","i","t","y","\"",":"," ","\"","h","i","g","h","\"","}","]","}">>,
          <<"{","\"","i","n","c","i","d","e","n","t","s","\"",":"," ","[","{","\"","e","v","e","n","t","\"",":"," ","\"","l","e","a","k","\"",","," ","\"","s","e","v","e","r","i","t","y","\"",":"," ","\"","h","i","g","h","\"","}","]",","," ","\"","s","y","n","o","p","s","i","s","\"",":"," ","\"","G","e","n","e","r","i","c"," ","d","o","m","a","i","n",".","\"","}">>,
          <<"-"," ","B","r","e","a","c","h"," ","i","n"," ","2","0","1","9","\n","-"," ","f","i","n","e","d">>,
          <<"{","\"","i","n","c","i","d","e","n","t","s","\"",":"," ","3","}">>,
          WorstText }}

\* the end of a POST to compare_cookie_audit: the breach snapshot is looked
\* up when asked for, the components are collected and, when there is one,
\* the consensus grade and risk level are computed; the request ends in an
\* error when the parser of the snapshot raises
Consensus ==
    /\ pc = "ready"
    /\ \E b \in {BreachLookup(include_breach_lookup, generated_snapshot, generated_legacy)} :
          IF b.raised
          THEN /\ pc' = "raised"
               /\ UNCHANGED <<breach_snapshot, breach_items, breach_synopsis, breach_grade,
                              final_grade_components, final_grade, final_grade_risk>>
          ELSE /\ breach_snapshot' = b.snapshot
               /\ breach_items' = b.incidents
               /\ breach_synopsis' = b.synopsis
               /\ breach_grade' = b.grade
               /\ \E components \in {Components(grade, cookie_grade, include_breach_lookup, b.grade)} :
                     /\ final_grade_components' = components
                     /\ final_grade' = ConsensusOf(components).grade
                     /\ final_grade_risk' = ConsensusOf(components).risk_level
               /\ pc' = "returned"
    /\ UNCHANGED <<grade, cookie_grade, include_breach_lookup, generated_snapshot,
                   generated_legacy, parseVars, classifyVars, gradeVars, flawVars,
                   highlightVars, breachVars>>

\* the policy may not have been fetched and the cookies not collected; the
\* generators of the snapshot are called only when the lookup is asked for
InitConsensus ==
    /\ pc = "ready"
    /\ grade \in {""} \cup Grades
    /\ cookie_grade \in {""} \cup Grades
    /\ include_breach_lookup \in BOOLEAN
    /\ generated_snapshot \in IF include_breach_lookup THEN GeneratedSnapshots ELSE {NoSnapshot}
    /\ generated_legacy \in IF include_breach_lookup THEN GeneratedSnapshots ELSE {NoSnapshot}
    /\ breach_snapshot = NoSnapshot
    /\ breach_items = <<>> /\ breach_synopsis = <<>> /\ breach_grade = ""
    /\ final_grade_components = <<>> /\ final_grade = "" /\ final_grade_risk = ""
    /\ IdleParse /\ IdleClassify /\ IdleGrade /\ IdleFlaws /\ IdleHighlight /\ IdleBreach

NextConsensus == Consensus

SpecConsensus == InitConsensus /\ [][NextConsensus]_vars

---------------------------------------------------------------------------
(* Properties of the aggregator                                            *)

\* the points of the grades of the components, added up
C10_PointsSum ==
    SumTo([i \in 1..Len(final_grade_components) |->
              CASE final_grade_components[i].grade = "A" -> 4
                [] final_grade_components[i].grade = "B" -> 3
                [] final_grade_components[i].grade = "C" -> 2
                [] final_grade_components[i].grade = "D" -> 1
                [] final_grade_components[i].grade = "F" -> 0],
          Len(final_grade_components))

\* C10: when the components have been collected and there is at least one,
\* the consensus grade is the letter of the mean of their points (A=4, B=3,
\* C=2, D=1, F=0) with the thresholds >= 3.5 A, >= 2.5 B, >= 1.5 C,
\* >= 0.5 D, else F (twice the sum against 7, 5, 3, 1 times the number of
\* components), and the risk level is Low for A and B, Medium for C, High
\* for D and F.
C10_ConsensusOfMean ==
    (pc = "returned" /\ final_grade_components # <<>>) =>
        LET n == Len(final_grade_components)
            twice == 2 * C10_PointsSum
        IN  /\ final_grade = (IF twice >= 7 * n THEN "A"
                              ELSE IF twice >= 5 * n THEN "B"
                              ELSE IF twice >= 3 * n THEN "C"
                              ELSE IF twice >= n THEN "D"
                              ELSE "F")
            /\ final_grade_risk = (CASE final_grade \in {"A", "B"} -> "Low"
                                     [] final_grade = "C" -> "Medium"
                                     [] final_grade \in {"D", "F"} -> "High")

\* the policy graded B and the cookies graded D give the consensus C, Medium
C10_Witness ==
    /\ pc = "returned"
    /\ final_grade_components
          = <<[label |-> "Policy", grade |-> "B"], [label |-> "Cookie", grade |-> "D"]>>
    /\ final_grade = "C"
    /\ final_grade_risk = "Medium"

\* C11: when the components have been collected, there is a consensus grade
\* exactly when there is at least one component, and likewise a consensus
\* risk level; there is no component exactly when there is no policy grade,
\* no cookie grade and no breach grade of a lookup that was asked for.
C11_NoComponentNoConsensus ==
    pc = "returned" =>
        /\ (final_grade # "") <=> (final_grade_components # <<>>)
        /\ (final_grade_risk # "") <=> (final_grade_components # <<>>)
        /\ (final_grade_components = <<>>)
              <=> (grade = "" /\ cookie_grade = "" /\ ~(include_breach_lookup /\ breach_grade # ""))

\* a lookup was asked for and gave no grade, nothing else was graded, and the
\* audit has ended without a consensus
C11_Witness ==
    /\ pc = "returned"
    /\ include_breach_lookup /\ breach_grade = "" /\ grade = "" /\ cookie_grade = ""
    /\ final_grade_components = <<>>
    /\ final_grade = "" /\ final_grade_risk = ""

\* the points that the incidents of the result cost
C12_Deductions ==
    SumTo([i \in 1..Len(breach_result.incidents) |->
              CASE breach_result.incidents[i].severity = "high" -> 28
                [] breach_result.incidents[i].severity = "medium" -> 16
                [] breach_result.incidents[i].severity = "low" -> 8
                [] OTHER -> 8],
          Len(breach_result.incidents))

\* C12: when _parse_breach_snapshot has returned, the grade is the letter of
\* the score max(0, 100 - deductions), 28 for a high incident, 16 for a
\* medium one, 8 for any other, with the thresholds >= 85 A, >= 70 B,
\* >= 55 C, >= 40 D, else F, and the risk level is Low for A and B, Medium
\* for C, High for D and F; no incident gives A and Low.
C12_BreachGradeOfDeductions ==
    pc = "returned" =>
        LET score == IF C12_Deductions > 100 THEN 0 ELSE 100 - C12_Deductions
        IN  /\ breach_result.grade = (IF score >= 85 THEN "A"
                                      ELSE IF score >= 70 THEN "B"
                                      ELSE IF score >= 55 THEN "C"
                                      ELSE IF score >= 40 THEN "D"
                                      ELSE "F")
            /\ breach_result.risk_level = (CASE breach_result.grade \in {"A", "B"} -> "Low"
                                             [] breach_result.grade = "C" -> "Medium"
                                             [] breach_result.grade \in {"D", "F"} -> "High")
            /\ breach_result.incidents = <<>> =>
                  breach_result.grade = "A" /\ breach_result.risk_level = "Low"

\* a JSON text with an incident of severity high and one of severity medium
\* has been parsed: 100 - 28 - 16 = 56, grade C, risk Medium
C12_Witness ==
    /\ pc = "returned"
    /\ Len(breach_result.incidents) = 2
    /\ breach_result.incidents[1].severity = "high"
    /\ breach_result.incidents[2].severity = "medium"
    /\ breach_result.incidents[1].source_url # <<>>
    /\ breach_result.grade = "C" /\ breach_result.risk_level = "Medium"

\* the elements of the incidents array of a decoded object
C13_Entries(parsed) == DictGet(parsed.v, <<"i","n","c","i","d","e","n","t","s">>, [t |-> "list", items |-> <<>>]).items

\* the event of an element of the array as the parser reads it: str() of the
\* value, stripped; empty for an element that is not an object
C13_Event(raw) ==
    IF raw.t = "dict"
    THEN Strip(PyStr(DictGet(raw, <<"e","v","e","n","t">>, [t |-> "str", s |-> <<>>])))
    ELSE <<>>

\* the events of the elements among the first five that are objects with an
\* event that is not empty, in the order of the array
C13_ExpectedEvents(entries) ==
    LET first == SubSeq(entries, 1, IF Len(entries) < 5 THEN Len(entries) ELSE 5)
        events == [i \in 1..Len(first) |-> C13_Event(first[i])]
    IN  SelectSeq(events, NotEmpty)

\* the text decodes to an object whose incidents member is an array (or is
\* missing)
C13_Structured(parsed) ==
    /\ parsed.ok /\ parsed.v.t = "dict"
    /\ DictGet(parsed.v, <<"i","n","c","i","d","e","n","t","s">>, [t |-> "list", items |-> <<>>]).t = "list"

\* C13: when _parse_breach_snapshot has returned, the result holds at most
\* five incidents, and when the text decodes to an object with an array of
\* incidents, the events of the result are, in order, the events of the
\* elements among the first five of the array that are objects with a
\* non-empty event.
C13_AtMostFiveFromFirstFive ==
    pc = "returned" =>
        /\ Len(breach_result.incidents) <= 5
        /\ \A parsed \in {DecodedPayload(_extract_json_object(snapshot_text))} :
              C13_Structured(parsed) =>
                  [i \in 1..Len(breach_result.incidents) |-> breach_result.incidents[i].event]
                      = C13_ExpectedEvents(C13_Entries(parsed))

\* an array of six elements has been parsed, of which the sixth is usable and
\* some of the first five are not: fewer than five incidents are returned and
\* the sixth is not among them
C13_Witness ==
    /\ pc = "returned"
    /\ \E parsed \in {DecodedPayload(_extract_json_object(snapshot_text))} :
          /\ C13_Structured(parsed)
          /\ \E entries \in {C13_Entries(parsed)} :
                /\ Len(entries) = 6
                /\ C13_Event(entries[6]) # <<>>
                /\ \E i \in 1..5 : C13_Event(entries[i]) = <<>>
                /\ \A i \in 1..Len(breach_result.incidents) :
                      breach_result.incidents[i].event # C13_Event(entries[6])
    /\ Len(breach_result.incidents) \in 1..4

\* C14: when _parse_breach_snapshot has returned, the incidents are in order
\* of descending severity: no incident stands before a more severe one.
C14_IncidentsBySeverity ==
    pc = "returned" =>
        \A i \in 1..Len(breach_result.incidents) : \A j \in 1..Len(breach_result.incidents) :
            i < j => _severity_rank(breach_result.incidents[i].severity)
                        <= _severity_rank(breach_result.incidents[j].severity)

---------------------------------------------------------------------------
(* Further properties of the cookie grader                                 *)

\* C15: when grade_cookie_truthfulness has returned, the counts of the five
\* categories add up to the number of classified cookies, the count of a
\* category is the number of classified cookies of that category, every
\* classified cookie has one of the five categories, and the classified
\* names are a list that parse_observed_cookies returns for the same text.
C15_CountsSumToCookies ==
    pc = "returned" =>
        /\ DOMAIN cookie_result.category_counts
              = {"analytics", "advertising", "session", "functional", "unknown"}
        /\ cookie_result.category_counts["analytics"]
              + cookie_result.category_counts["advertising"]
              + cookie_result.category_counts["session"]
              + cookie_result.category_counts["functional"]
              + cookie_result.category_counts["unknown"] = Len(cookie_result.cookies)
        /\ \A c \in DOMAIN cookie_result.category_counts :
              cookie_result.category_counts[c]
                 = Cardinality({i \in 1..Len(cookie_result.cookies) :
                                   cookie_result.cookies[i].category = c})
        /\ \A i \in 1..Len(cookie_result.cookies) :
              cookie_result.cookies[i].category \in DOMAIN cookie_result.category_counts
        /\ [i \in 1..Len(cookie_result.cookies) |-> cookie_result.cookies[i].name]
              \in parse_observed_cookies(observed_cookie_text)

\* a text with cookies of at least four categories, some category holding
\* more than one, has been graded
C15_Witness ==
    /\ pc = "returned"
    /\ Cardinality({c \in DOMAIN cookie_result.category_counts :
                       cookie_result.category_counts[c] > 0}) >= 4
    /\ cookie_result.category_counts["unknown"] > 0
    /\ \E c \in DOMAIN cookie_result.category_counts : cookie_result.category_counts[c] > 1
    /\ Len(cookie_result.cookies) >= 5

---------------------------------------------------------------------------
(* Malformed entries of a report                                           *)

\* the positions of the well-formed hits of a report
C16_WellFormedPositions(rep) ==
    {p \in ReportHitPositions(rep) : WellFormedHit(rep, p)}

\* C16: _extract_flaws never raises on a report that contains malformed
\* entries: the malformed entries are skipped and exactly one flaw is returned
\* for each of the remaining well-formed hits.
C16_MalformedEntriesSkipped ==
    pc # "ready" =>
        /\ pc = "returned"
        /\ Len(flaws) = Cardinality(C16_WellFormedPositions(report))
        /\ \A p \in C16_WellFormedPositions(report) :
              \E i \in 1..Len(flaws) : FlawHit(flaws[i]) = HitAt(report, p)

---------------------------------------------------------------------------
(* The synopsis of an unstructured text                                    *)

\* whether the text of the call is handled line by line
C17_LineBased ==
    \A parsed \in {DecodedPayload(_extract_json_object(snapshot_text))} :
        ~(parsed.ok /\ parsed.v.t = "dict")

\* the lines of the text, stripped, the blank ones left out
C17_Lines ==
    SelectSeq([i \in 1..Len(SplitLines(snapshot_text)) |-> Strip(SplitLines(snapshot_text)[i])],
              NotBlank)

\* whether a line is a "synopsis:" line, in any case of the letters
C17_IsSynopsisLine(line) ==
    StartsWith(Lower(line), <<"s","y","n","o","p","s","i","s",":">>)

\* the texts that the "synopsis:" lines carry after their first colon
C17_SynopsisTexts ==
    {Strip(AfterFirstColon(C17_Lines[i])) :
        i \in {k \in 1..Len(C17_Lines) : C17_IsSynopsisLine(C17_Lines[k])}} \ {<<>>}

C17_DefaultSynopsis ==
    <<"M","o","d","e","l"," ","r","e","t","u","r","n","e","d"," ","u","n","s","t","r","u","c","t","u","r","e","d"," ","o","u","t","p","u","t",";"," ","r","e","v","i","e","w"," ","m","a","n","u","a","l","l","y",".">>

\* C17: in the line-based path a "synopsis:" line with text after its first
\* colon provides the synopsis wherever it sits among the lines, also after
\* five incident lines; the default synopsis is returned only when there is no
\* such line; a synopsis line is never counted as an incident.
C17_SynopsisLineFoundAnywhere ==
    (pc = "returned" /\ C17_LineBased) =>
        /\ IF C17_SynopsisTexts = {}
           THEN breach_result.synopsis = C17_DefaultSynopsis
           ELSE breach_result.synopsis \in C17_SynopsisTexts
        /\ \A i \in 1..Len(breach_result.incidents) :
              ~C17_IsSynopsisLine(breach_result.incidents[i].event)

---------------------------------------------------------------------------
(* The two paths of the breach parser                                      *)

C18_UnstructuredImpact ==
    <<"D","e","t","a","i","l","s"," ","n","o","t"," ","s","t","r","u","c","t","u","r","e","d"," ","b","y"," ","m","o","d","e","l"," ","o","u","t","p","u","t",".">>

\* whether the text holds a slice from a first "{" to a later last "}" that
\* decodes to a JSON object
C18_DecodesToObject(s) ==
    /\ \E i, j \in 1..Len(s) : i < j /\ s[i] = "{" /\ s[j] = "}"
    /\ \A parsed \in {DecodedPayload(_extract_json_object(s))} :
          parsed.ok /\ parsed.v.t = "dict"

\* the lines of a text with their leading bullets and blanks removed
C18_CleanedLines(s) ==
    {Strip(StripBullets(Strip(SplitLines(s)[i]))) : i \in 1..Len(SplitLines(s))}

\* a result of the line-based path: a synopsis, and incidents that are lines
\* of the text with date "Unknown", severity medium and no source URL
C18_LinePathResult(res, s) ==
    /\ res.synopsis # <<>>
    /\ \A i \in 1..Len(res.incidents) :
          /\ res.incidents[i].event \in C18_CleanedLines(s)
          /\ res.incidents[i].date = <<"U","n","k","n","o","w","n">>
          /\ res.incidents[i].severity = "medium"
          /\ res.incidents[i].source_url = <<>>
          /\ res.incidents[i].impact = C18_UnstructuredImpact

\* a result of the structured path: the synopsis of the decoded object, and
\* the usable incidents of its array and nothing else
C18_StructuredPathResult(res, parsed) ==
    /\ res.synopsis = Strip(PyStr(DictGet(parsed.v, <<"s","y","n","o","p","s","i","s">>,
                                          [t |-> "str", s |-> <<>>])))
    /\ [i \in 1..Len(res.incidents) |-> res.incidents[i].event]
          = (IF C13_Structured(parsed) THEN C13_ExpectedEvents(C13_Entries(parsed)) ELSE <<>>)
    /\ \A i \in 1..Len(res.incidents) : res.incidents[i].impact # C18_UnstructuredImpact

\* C18: when _parse_breach_snapshot has returned, the result is that of the
\* structured path if the text holds a slice from its first "{" to its last
\* "}" that decodes to a JSON object, and that of the line-based path
\* otherwise; the paths are not mixed: an object without usable incidents
\* gives no incidents, and every line-based incident has date "Unknown",
\* severity medium and an empty source_url.
C18_OnePathPerText ==
    pc = "returned" =>
        IF C18_DecodesToObject(snapshot_text)
        THEN \A parsed \in {DecodedPayload(_extract_json_object(snapshot_text))} :
                C18_StructuredPathResult(breach_result, parsed)
        ELSE C18_LinePathResult(breach_result, snapshot_text)

\* an object without usable incidents has been decoded from a text whose
\* lines would give incidents, and no incident is returned
C18_Witness ==
    /\ pc = "returned"
    /\ C18_DecodesToObject(snapshot_text)
    /\ \E i \in 1..Len(SplitLines(snapshot_text)) :
          \E line \in {Strip(StripBullets(Strip(SplitLines(snapshot_text)[i])))} :
              /\ line # <<>>
              /\ ~StartsWith(Lower(line), <<"s","y","n","o","p","s","i","s",":">>)
              /\ \A k \in 1..Len(line) : line[k] \notin {"{", "}", "GRAVE"}
    /\ breach_result.incidents = <<>>

---------------------------------------------------------------------------
(* Determinism of the highlighter                                          *)

\* C19: _highlight_dangers is deterministic: the spans it has marked are the
\* spans it marks for every iteration order of the set of flagged terms, also
\* when two of the terms give patterns of equal length that match at the same
\* position.
C19_SpansIndependentOfSetOrder ==
    pc = "returned" =>
        \A patterns \in SortedByLenDescending(DangerousTerms(flaws)) :
            spans = _highlight_dangers(text, flaws, patterns).spans

---------------------------------------------------------------------------
(* The Breach component of the consensus                                   *)

\* the positions of the components with a label
C20_Positions(label) ==
    {i \in 1..Len(final_grade_components) : final_grade_components[i].label = label}

\* the place of a label in the order Policy, Cookie, Breach
C20_Rank(label) ==
    CASE label = "Policy" -> 1 [] label = "Cookie" -> 2 [] label = "Breach" -> 3

\* C20: when the audit has ended, there is a Breach component exactly when
\* the breach lookup was asked for and the primary or the legacy generation
\* returned a text (the legacy one is tried when the primary one gave no
\* incidents); when both return none there is no Breach grade; a snapshot
\* without incidents contributes the grade A; each of Policy, Cookie and
\* Breach is a component at most once, in this order.
C20_BreachComponentOfSnapshot ==
    pc = "returned" =>
        /\ (C20_Positions("Breach") # {})
              <=> (include_breach_lookup /\ (generated_snapshot.some \/ generated_legacy.some))
        /\ (~generated_snapshot.some /\ ~generated_legacy.some) => breach_grade = ""
        /\ \A i \in C20_Positions("Breach") :
              /\ final_grade_components[i].grade = breach_grade
              /\ breach_items = <<>> => final_grade_components[i].grade = "A"
        /\ \A i, j \in 1..Len(final_grade_components) :
              i < j => C20_Rank(final_grade_components[i].label)
                          < C20_Rank(final_grade_components[j].label)

\* the primary snapshot held no incident and the legacy generation returned
\* none: the snapshot is a component with the grade A, after the policy and
\* the cookies
C20_Witness ==
    /\ pc = "returned"
    /\ include_breach_lookup
    /\ generated_snapshot.some /\ ~generated_legacy.some
    /\ breach_items = <<>>
    /\ Len(final_grade_components) = 3
    /\ final_grade_components[1].label = "Policy"
    /\ final_grade_components[2].label = "Cookie"
    /\ final_grade_components[3] = [label |-> "Breach", grade |-> "A"]

---------------------------------------------------------------------------
(* The consensus among the grades of its components                        *)

\* the place of a letter among the grades, the best first
C21_Place(letter) ==
    CASE letter = "A" -> 1 [] letter = "B" -> 2 [] letter = "C" -> 3
      [] letter = "D" -> 4 [] letter = "F" -> 5

\* the places of the grades of the components
C21_Places ==
    {C21_Place(final_grade_components[i].grade) : i \in 1..Len(final_grade_components)}

\* C21: when the audit has ended with at least one component, the consensus
\* grade is not better than the best grade of a component and not worse than
\* the worst one; when all components carry one grade, the consensus is that
\* grade.
C21_ConsensusBetweenBestAndWorst ==
    (pc = "returned" /\ final_grade_components # <<>>) =>
        /\ final_grade \in {"A", "B", "C", "D", "F"}
        /\ \E best \in C21_Places : best <= C21_Place(final_grade)
        /\ \E worst \in C21_Places : C21_Place(final_grade) <= worst
        /\ \A i \in 1..Len(final_grade_components) :
              (\A j \in 1..Len(final_grade_components) :
                  final_grade_components[j].grade = final_grade_components[i].grade)
                  => final_grade = final_grade_components[i].grade

\* the policy and the cookies are both graded B and no snapshot was looked
\* up: the consensus of the two components is B
C21_Witness ==
    /\ pc = "returned"
    /\ final_grade_components
          = <<[label |-> "Policy", grade |-> "B"], [label |-> "Cookie", grade |-> "B"]>>
    /\ final_grade = "B"

===========================================================================
